---- MODULE Spec2Model ----
(***************************************************************************)
(* Playlist assembly of yt-agent-assistant: AudioEngine.build_selection    *)
(* (seeded selection with preferred head, shuffled fill and exhaustion     *)
(* cycles) and AudioEngine.write_chapters (cumulative chapter timestamps). *)
(* Durations are counted in whole ticks; write_chapters uses ten ticks per *)
(* second so that fractional seconds and their truncation are visible.     *)
(***************************************************************************)
EXTENDS Integers, Sequences, FiniteSets, TLC

\* ------------------------------------------------------------------ bounds
\* largest target_seconds, largest integer seed, longest preferred_head,
\* longest track list handed to write_chapters
MaxTarget == 5
MaxSeed == 2
MaxHead == 2
MaxTracks == 3
\* longest selection handed to copy_and_rename
MaxClips == 101
\* images in the image folder, and title submissions posted to the web UI
NumImages == 2
MaxPosts == 3

\* ------------------------------------------------------- Python's None
\* None for an Optional[int] field (psalm_num, gospel_chapter, seed, max_head_items)
None == 0 - 1

\* ------------------------------------------------------------ clip records
\* TrackItem: the dict built by collect_psalms / collect_gospels
TrackItem(path, type, psalm_num, gospel_name, gospel_chapter, label, dur) ==
    [path |-> path, type |-> type, psalm_num |-> psalm_num,
     gospel_name |-> gospel_name, gospel_chapter |-> gospel_chapter,
     label |-> label, dur |-> dur]

\* The clip library the pools are drawn from.  Entry 4 repeats psalm number
\* 23 under another path; entry 5 is the same file as entry 4, so that pools
\* with a repeated path exist.
Catalog ==
    << TrackItem("ps23.mp3", "psalm", 23, "", None, "psalm 23", 2),
       TrackItem("ps91.mp3", "psalm", 91, "", None, "psalm 91", 3),
       TrackItem("mark4.mp3", "gospel", None, "marc", 4, "Marc 4", 2),
       TrackItem("psalm_023b.mp3", "psalm", 23, "", None, "psalm 23", 1),
       TrackItem("psalm_023b.mp3", "psalm", 23, "", None, "psalm 23", 1) >>

RECURSIVE SubCatalog(_, _)
\* the entries of Catalog whose index is in idxs, from index i on, in order
SubCatalog(idxs, i) ==
    IF i > Len(Catalog) THEN <<>>
    ELSE (IF i \in idxs THEN <<Catalog[i]>> ELSE <<>>) \o SubCatalog(idxs, i + 1)

Pools == { SubCatalog(idxs, 1) : idxs \in SUBSET (1..Len(Catalog)) }

RECURSIVE SelectType(_, _)
SelectType(items, type) ==
    IF items = <<>> THEN <<>>
    ELSE (IF Head(items).type = type THEN <<Head(items)>> ELSE <<>>)
         \o SelectType(Tail(items), type)

\* ------------------------------------------------------- preference tokens
IntTok(n) == [kind |-> "int", num |-> n, book |-> "", chap |-> None]
\* a string token "<book> <chap>"
StrTok(book, chap) == [kind |-> "str", num |-> None, book |-> book, chap |-> chap]

Tokens == { IntTok(23), IntTok(91), IntTok(7), StrTok("mark", 4) }

RECURSIVE SeqsUpTo(_, _)
SeqsUpTo(S, n) ==
    IF n = 0 THEN { <<>> }
    ELSE LET shorter == SeqsUpTo(S, n - 1)
         IN shorter \cup { Append(q, x) : q \in shorter, x \in S }

\* ----------------------------------------------------------- seeded rng
\* the states the operating system's entropy can seed the generator with
Entropy == {0, MaxSeed}

\* a generator that ignores the seed it is given
RandomSeedIgnored(sd, entropy) == entropy

\* random.Random(seed): an integer seed fixes the generator state; seed None
\* takes it from the operating system's entropy.
RandomSeed(sd, entropy) == IF sd = None THEN entropy ELSE sd % 64

\* one step of the generator (a small linear congruential generator stands
\* for the Mersenne Twister)
RngNext(s) == (13 * s + 7) % 64

\* Random._randbelow(n) read from the state after the step
RandBelow(s, n) == (s \div 4) % n

\* F applied to the value of v, which is computed once
Bind(v, F(_)) == CHOOSE y \in { F(w) : w \in {v} } : TRUE

\* x[i], x[j] = x[j], x[i]
Swap(x, i, j) == [x EXCEPT ![i] = x[j], ![j] = x[i]]

RECURSIVE ShuffleFrom(_, _, _)
\* random.shuffle: for i in reversed(range(1, len(x))): j = randbelow(i + 1);
\* x[i], x[j] = x[j], x[i]      (i is 1-based here)
ShuffleFrom(x, s, i) ==
    IF i < 2 THEN [seq |-> x, rng |-> s]
    ELSE Bind(<<x, RngNext(s)>>,
              LAMBDA p : ShuffleFrom(Swap(p[1], i, RandBelow(p[2], i) + 1),
                                     p[2], i - 1))

Shuffle(x, s) == ShuffleFrom(x, s, Len(x))

\* ---------------------------------------------------------------- helpers
RECURSIVE Paths(_)
Paths(items) ==
    IF items = <<>> THEN {} ELSE { Head(items).path } \cup Paths(Tail(items))

RECURSIVE SumDur(_)
SumDur(items) ==
    IF items = <<>> THEN 0 ELSE Head(items).dur + SumDur(Tail(items))

\* a filter that forgets the used set
NotUsedAll(items, used) == items

RECURSIVE NotUsed(_, _)
\* [it for it in pool_items if it["path"] not in used_paths]
NotUsed(items, used) ==
    IF items = <<>> THEN <<>>
    ELSE (IF Head(items).path \notin used THEN <<Head(items)>> ELSE <<>>)
         \o NotUsed(Tail(items), used)

\* _norm_gospel_name (names are already stripped and lower-cased here)
NormGospelName(name) ==
    IF name \in {"marc", "mark"} THEN "marc"
    ELSE IF name \in {"luke", "luc"} THEN "luke"
    ELSE IF name \in {"matt", "matthew", "matthieu"} THEN "matthew"
    ELSE IF name \in {"john", "jean"} THEN "john"
    ELSE name

\* _parse_gospel_ref: _GOSPEL_RE finds one of its book spellings followed by
\* digits, otherwise (None, None)
ParseGospelRef(tok) ==
    IF tok.book \in {"luke", "luc", "matt", "matthew", "matthieu", "john", "jean", "marc", "mark"}
       /\ tok.chap # None
    THEN [name |-> NormGospelName(tok.book), chapter |-> tok.chap]
    ELSE [name |-> "", chapter |-> None]

RECURSIVE PsalmGet(_, _)
\* by_psalm.get(n): setdefault keeps the first candidate of each number
PsalmGet(cands, n) ==
    IF cands = <<>> THEN <<>>
    ELSE IF Head(cands).type = "psalm" /\ Head(cands).psalm_num # None
            /\ Head(cands).psalm_num = n
         THEN <<Head(cands)>>
         ELSE PsalmGet(Tail(cands), n)

RECURSIVE GospelGet(_, _, _)
\* by_gospel.get((name, chapter))
GospelGet(cands, name, chapter) ==
    IF cands = <<>> THEN <<>>
    ELSE IF Head(cands).type = "gospel" /\ Head(cands).gospel_name # ""
            /\ Head(cands).gospel_chapter # None
            /\ Head(cands).gospel_name = name /\ Head(cands).gospel_chapter = chapter
         THEN <<Head(cands)>>
         ELSE GospelGet(Tail(cands), name, chapter)

\* the candidate one token resolves to, <<>> when it has none
ResolveToken(pref, cands) ==
    IF pref.kind = "int" THEN PsalmGet(cands, pref.num)
    ELSE LET r == ParseGospelRef(pref)
         IN IF r.name # "" /\ r.chapter # None /\ r.chapter # 0
            THEN GospelGet(cands, r.name, r.chapter)
            ELSE <<>>

\* a head that takes every resolved clip, placed before or not
PlaceInHeadAlways(acc, cand) ==
    IF cand # <<>> THEN Append(acc, cand[1]) ELSE acc

\* if cand and cand["path"] not in used_paths: head.append(cand)
PlaceInHead(acc, cand) ==
    IF cand # <<>> /\ cand[1].path \notin Paths(acc)
    THEN Append(acc, cand[1]) ELSE acc

RECURSIVE ResolveHead(_, _, _)
\* the loop over head_candidates; used_paths holds exactly the paths of acc
ResolveHead(tokens, cands, acc) ==
    IF tokens = <<>> THEN acc
    ELSE Bind(<<acc, ResolveToken(Head(tokens), cands)>>,
              LAMBDA p : ResolveHead(Tail(tokens), cands, PlaceInHead(p[1], p[2])))

\* a token list that is never cut
TruncateHeadNever(tokens, max_head) == tokens

\* head_candidates[:max_head] when max_head_items is a positive int
TruncateHead(tokens, max_head) ==
    IF max_head # None /\ max_head > 0 /\ max_head < Len(tokens)
    THEN SubSeq(tokens, 1, max_head) ELSE tokens

\* a stop test that tolerates being one tick short
TargetReachedShort(tot, target) == tot >= target - 1

\* a stop test that needs the target to be exceeded
TargetReachedStrict(tot, target) == tot > target

\* total >= target_seconds, the stop test of both walks
TargetReached(tot, target) == tot >= target

\* preferred_candidates if preferred_candidates is not None else pool_items
EffectiveCandidates(cands, pool) == IF cands.isNone THEN pool ELSE cands.items

\* the fill placed in front of the head
FirstPassTailFirst(hd, tl) == tl \o hd

\* first_pass = head + tail
FirstPass(hd, tl) == hd \o tl

\* an exhaustion cycle that never resets the used set
CycleRemainingNoReset(pool, used) == [items |-> NotUsed(pool, used), used |-> used]

\* the clips one exhaustion cycle walks, and the used set it starts from:
\* remaining = unused pool clips; if none, reset used_paths and take the pool
CycleRemaining(pool, used) ==
    LET rest == NotUsed(pool, used)
    IN IF rest = <<>> THEN [items |-> pool, used |-> {}]
       ELSE [items |-> rest, used |-> used]

\* ------------------------------------------------------------- chapters
\* an Optional[float]: <<>> is None, <<v>> a value (in ticks, 10 per second)
Opt(v) == << v >>

Max(a, b) == IF a >= b THEN a ELSE b

\* offset_first = max(0.0, offset_first or 0.0)
ClampOffset(arg) == IF arg = <<>> THEN 0 ELSE Max(0, arg[1])

\* a first-track trim that is not clamped at zero
EffectiveDurationUnclamped(i, dur, off) ==
    IF i = 1 /\ off > 0 THEN dur - off ELSE dur

\* effective = dur; if idx == 1 and offset_first > 0.0: max(0.0, dur - offset_first)
EffectiveDuration(i, dur, off) ==
    IF i = 1 /\ off > 0 THEN Max(0, dur - off) ELSE dur

\* a timestamp rounded to the nearest second
FormatTsRounded(ticks) ==
    LET secs == (Max(0, ticks) + 5) \div 10
        rest == secs % 86400
    IN [days |-> secs \div 86400, hh |-> rest \div 3600,
        mm |-> (rest % 3600) \div 60, ss |-> rest % 60]

\* format_ts: timedelta(seconds=int(max(0, seconds_float))) split the way
\* timedelta.__str__ prints it (days, hours, minutes, seconds)
FormatTs(ticks) ==
    LET secs == Max(0, ticks) \div 10
        rest == secs % 86400
    IN [days |-> secs \div 86400, hh |-> rest \div 3600,
        mm |-> (rest % 3600) \div 60, ss |-> rest % 60]

Pad2(n) == IF n < 10 THEN "0" \o ToString(n) ELSE ToString(n)

\* the text of one chapter line: f"{format_ts(t)} - {label}"
LineText(line) ==
    (IF line.ts.days = 0 THEN ""
     ELSE ToString(line.ts.days) \o (IF line.ts.days = 1 THEN " day, " ELSE " days, "))
    \o ToString(line.ts.hh) \o ":" \o Pad2(line.ts.mm) \o ":" \o Pad2(line.ts.ss)
    \o " - " \o line.label

\* ------------------------------------------------------------------ state
VARIABLES
    \* build_selection: arguments and settings
    pool_items, target_seconds, preferred_head, preferred_candidates, seed,
    max_head_items,
    \* build_selection: locals, control point, and the caller's view
    rng, selection, total, used_paths, head_candidates, head, remaining, pc,
    call, first_result,
    \* write_chapters: arguments, locals, control point, file content
    tracks_with_meta, offset_arg, offset_first, lines, t, idx, cpc, chapters_file,
    \* collect_psalms / collect_gospels: the two folders, the sorted listing
    \* being walked, the position in it, the records so far, control point,
    \* and the message of the SystemExit raised
    trimmed_dir, gospel_root, files, fi, items, col_pc, col_error,
    \* build_playlist and the export: settings and argument, the folder
    \* trackNN, the locals psalms, pad, out, the copy loop's position, control
    include_gospel, timeline_idx, earlier_export, earlier_chapters,
    track_dir, psalms, pad, out, ci, pl_pc,
    \* ensure_yt_thumbnail: the image file and what the codecs make of it,
    \* the setting yt_thumb_target_bytes, the locals target_bytes, lo, hi,
    \* best_data, control point, and the tuple returned
    img_exists, orig_bytes, img_suffix, img_readable, png_len, jpeg_floor,
    jpeg_slope, yt_thumb_target_bytes,
    target_bytes, lo, hi, best_data, th_pc, thumb,
    \* run_all and the web UI it serves: the settings and files the trigger
    \* looks at, the images handled so far, trigger_event, the worker thread,
    \* the launcher's main thread, and the syncs each has started
    auto_trigger_resolve, resolve_script_exists, chosen, posts, trigger_event,
    worker_pc, resolve_note, ra_pc, web_syncs, main_syncs, syncs_when_ready,
    \* _norm_gospel_name and its two users: a book name as written, a chapter,
    \* where a library file carries the name, the name normalized once and
    \* twice, the reference parsed from a token, the catalog record, control
    nm_name, nm_chap, nm_layout, nm_once, nm_twice, nm_ref, nm_record, nm_pc,
    \* the web UI: state["ordered"], what each request thread is doing,
    \* the images with a non-empty chosen.txt, trackNN and chaptersNN.txt by
    \* playlist index, the running sync workers, the images whose export stands
    ordered, requests, chosen_txt, track_dirs, chapters_files, workers,
    exported,
    \* the audio placement of sync_timelines: the final duration in frames,
    \* int(round(dur_sec * fps)) of each audio item, the loop's locals (remaining
    \* is remaining_frames here), the item the loop is at, and its position
    frames_final, audio_frames, a_rec, remaining_frames, trim_remaining,
    first_audio_seen, audio_instr, au_i, au_pc

inputs == << pool_items, target_seconds, preferred_head, preferred_candidates,
             seed, max_head_items >>

selVars == << inputs, rng, selection, total, used_paths, head_candidates, head,
              remaining, pc, call, first_result >>

chInputs == << tracks_with_meta, offset_arg >>

chVars == << chInputs, offset_first, lines, t, idx, cpc, chapters_file >>

colInputs == << trimmed_dir, gospel_root >>

colVars == << colInputs, files, fi, items, col_pc, col_error >>

plInputs == << include_gospel, timeline_idx, earlier_export, earlier_chapters >>

plVars == << plInputs, track_dir, psalms, pad, out, ci, pl_pc >>

thInputs == << img_exists, orig_bytes, img_suffix, img_readable, png_len,
               jpeg_floor, jpeg_slope, yt_thumb_target_bytes >>

thVars == << thInputs, target_bytes, lo, hi, best_data, th_pc, thumb >>

syInputs == << auto_trigger_resolve, resolve_script_exists >>

syVars == << syInputs, chosen, posts, trigger_event, worker_pc, resolve_note,
             ra_pc, web_syncs, main_syncs, syncs_when_ready >>

nmVars == << nm_name, nm_chap, nm_layout, nm_once, nm_twice, nm_ref, nm_record,
             nm_pc >>

wbVars == << ordered, requests, chosen_txt, track_dirs, chapters_files,
            workers, exported >>

auVars == << frames_final, audio_frames, a_rec, remaining_frames,
            trim_remaining, first_audio_seen, audio_instr, au_i, au_pc >>

vars == << selVars, chVars, colVars, plVars, thVars, syVars, nmVars, wbVars,
           auVars >>

\* everything outside build_selection / write_chapters / the collectors /
\* build_playlist's own steps
notSel == << chVars, colVars, plVars, thVars, syVars, nmVars, wbVars,
             auVars >>
notCh == << selVars, colVars, plVars, thVars, syVars, nmVars, wbVars,
            auVars >>
notCol == << selVars, chVars, plVars, thVars, syVars, nmVars, wbVars,
             auVars >>
notPl == << selVars, chVars, colVars, thVars, syVars, nmVars, wbVars,
            auVars >>
notTh == << selVars, chVars, colVars, plVars, syVars, nmVars, wbVars,
            auVars >>
notSy == << selVars, chVars, colVars, plVars, thVars, nmVars, wbVars,
            auVars >>
notNm == << selVars, chVars, colVars, plVars, thVars, syVars, wbVars,
            auVars >>
notWb == << selVars, chVars, colVars, plVars, thVars, syVars, nmVars,
            auVars >>

\* ---------------------------------------------------- build_selection
\* the arguments a caller can pass for preferred_candidates: None, the
\* psalms of the pool (build_playlist), or psalms and gospels of the library
\* whatever the pool holds (_process_titles), or the psalms of the pool
\* followed by the gospels of the library (_process_titles with
\* include_gospel off: ps_items + go_items for the pool ps_items)
CandidateArgs(pool) ==
    { [isNone |-> TRUE, items |-> <<>>],
      [isNone |-> FALSE, items |-> SelectType(pool, "psalm")],
      [isNone |-> FALSE, items |-> SubSeq(Catalog, 1, 4)],
      [isNone |-> FALSE,
       items |-> SelectType(pool, "psalm") \o SelectType(Catalog, "gospel")] }

SelectionIdle ==
    /\ rng = 0
    /\ selection = <<>>
    /\ total = 0
    /\ used_paths = {}
    /\ head_candidates = <<>>
    /\ head = <<>>
    /\ remaining = <<>>
    /\ call = 1
    /\ first_result = [selection |-> <<>>, total |-> 0]

ChaptersIdle ==
    /\ offset_first = 0
    /\ lines = <<>>
    /\ t = 0
    /\ idx = 0
    /\ chapters_file = <<>>

\* no call is in progress: the arguments are not set yet
SelectionNotCalled ==
    /\ pool_items = <<>>
    /\ target_seconds = 0
    /\ preferred_head = <<>>
    /\ preferred_candidates = [isNone |-> TRUE, items |-> <<>>]
    /\ seed = None
    /\ SelectionIdle
    /\ pc = "idle"

\* a folder that does not exist
NoDir == [exists |-> FALSE, entries |-> {}]

CollectIdle ==
    /\ files = <<>>
    /\ fi = 0
    /\ items = <<>>
    /\ col_error = ""

\* no collector is called and no library folder is looked at
CollectNotCalled ==
    /\ trimmed_dir = NoDir
    /\ gospel_root = NoDir
    /\ CollectIdle
    /\ col_pc = "idle"

\* write_chapters is not called
ChaptersNotCalled ==
    /\ tracks_with_meta = <<>>
    /\ offset_arg = <<>>
    /\ ChaptersIdle
    /\ cpc = "idle"

\* a track folder that does not exist
NoTrackDir == [exists |-> FALSE, files |-> {}]

ExportIdle ==
    /\ psalms = <<>>
    /\ pad = 0
    /\ out = <<>>
    /\ ci = 0

\* build_playlist is not called and no track folder is looked at
PlaylistNotCalled ==
    /\ include_gospel = TRUE
    /\ timeline_idx = 0
    /\ earlier_export = NoTrackDir
    /\ earlier_chapters = <<>>
    /\ track_dir = NoTrackDir
    /\ ExportIdle
    /\ pl_pc = "idle"

\* no thumbnail value: None
NoThumb == [path |-> "None", orig_bytes |-> 0, new_bytes |-> None]

ThumbIdle ==
    /\ target_bytes = 0
    /\ lo = 0
    /\ hi = 0
    /\ best_data = None
    /\ thumb = NoThumb

\* ensure_yt_thumbnail is not called and no image is looked at
ThumbNotCalled ==
    /\ img_exists = FALSE
    /\ orig_bytes = 0
    /\ img_suffix = ".png"
    /\ img_readable = FALSE
    /\ png_len = 0
    /\ jpeg_floor = 0
    /\ jpeg_slope = 0
    /\ yt_thumb_target_bytes = 0
    /\ ThumbIdle
    /\ th_pc = "idle"

SyncIdle ==
    /\ chosen = {}
    /\ posts = 0
    /\ trigger_event = FALSE
    /\ worker_pc = "idle"
    /\ resolve_note = "None"
    /\ web_syncs = 0
    /\ main_syncs = 0
    /\ syncs_when_ready = 0

\* the launcher is not started and no web UI is served
LauncherNotStarted ==
    /\ auto_trigger_resolve = TRUE
    /\ resolve_script_exists = TRUE
    /\ SyncIdle
    /\ ra_pc = "off"

\* a name as it is written: its letters in lower case, how they are cased,
\* and the blanks around it
AsWritten(letters, casing, blanks) ==
    [letters |-> letters, casing |-> casing, blanks |-> blanks]

\* _norm_gospel_name is not applied to anything
NormNotCalled ==
    /\ nm_name = AsWritten("", "lower", 0)
    /\ nm_chap = None
    /\ nm_layout = "stem"
    /\ nm_once = ""
    /\ nm_twice = ""
    /\ nm_ref = [name |-> "", chapter |-> None]
    /\ nm_record = <<>>
    /\ nm_pc = "idle"

\* the threads of the development server that handle requests at one time
RequestThreads == {"t1", "t2"}

\* a request thread between two requests
NoRequest == [pc |-> "idle", i |-> 0, copied |-> 0]

\* the numbers the image names considered give as playlist index
PlaylistIndices == {0, 1, 2}

\* a track folder that does not exist
NoTrackFolder == [exists |-> FALSE, files |-> {}]

\* no web UI is served: no image is listed, nothing is exported
WebNotServed ==
    /\ ordered = <<>>
    /\ requests = [th \in RequestThreads |-> NoRequest]
    /\ chosen_txt = {}
    /\ track_dirs = [n \in PlaylistIndices |-> NoTrackFolder]
    /\ chapters_files = [n \in PlaylistIndices |-> None]
    /\ workers = 0
    /\ exported = {}

\* sync_timelines has not reached its audio placement
AudioNotPlaced ==
    /\ frames_final = 0
    /\ audio_frames = <<>>
    /\ a_rec = 0
    /\ remaining_frames = 0
    /\ trim_remaining = 0
    /\ first_audio_seen = FALSE
    /\ audio_instr = <<>>
    /\ au_i = 0
    /\ au_pc = "idle"

\* the engine is constructed with its settings; nothing has been called
Init ==
    /\ max_head_items \in {None, 1}
    /\ ThumbNotCalled
    /\ LauncherNotStarted
    /\ AudioNotPlaced
    /\ WebNotServed
    /\ NormNotCalled
    /\ SelectionNotCalled
    /\ ChaptersNotCalled
    /\ CollectNotCalled
    /\ PlaylistNotCalled

\* a caller invokes build_selection(pool_items, target_seconds,
\* preferred_head, preferred_candidates, seed) with a head from heads and a
\* seed from seeds
CallWith(heads, seeds) ==
    /\ pc = "idle"
    /\ pool_items' \in Pools
    /\ target_seconds' \in 0..MaxTarget
    /\ preferred_head' \in heads
    /\ preferred_candidates' \in CandidateArgs(pool_items')
    /\ seed' \in seeds
    /\ pc' = "start"
    /\ UNCHANGED << max_head_items, rng, selection, total, used_paths, head_candidates, head,
                    remaining, call, first_result, notSel >>

Call == CallWith(SeqsUpTo(Tokens, MaxHead), {None} \cup 0..MaxSeed)

\* the calls followed to their end under fairness: one preference token at
\* most and two integer seeds
CallShort == CallWith(SeqsUpTo(Tokens, 1), {0, MaxSeed})

\* a head built from the first shuffled token only, whatever max_head_items
BuildHeadFirstToken(tokens, cands, max_head, rng0) ==
    IF tokens = <<>> THEN [tokens |-> <<>>, head |-> <<>>, rng |-> rng0]
    ELSE Bind(Shuffle(tokens, rng0),
              LAMBDA sh : [tokens |-> SubSeq(sh.seq, 1, 1),
                           head |-> ResolveHead(SubSeq(sh.seq, 1, 1), cands, <<>>),
                           rng |-> sh.rng])

\* the head: shuffle the tokens, truncate, resolve (nothing when
\* preferred_head is empty); tokens is head_candidates as the loop reads it,
\* rng the generator state afterwards
BuildHead(tokens, cands, max_head, rng0) ==
    IF tokens = <<>> THEN [tokens |-> <<>>, head |-> <<>>, rng |-> rng0]
    ELSE Bind(Shuffle(tokens, rng0),
              LAMBDA sh :
                Bind(TruncateHead(sh.seq, max_head),
                     LAMBDA cut : [tokens |-> cut,
                                   head |-> ResolveHead(cut, cands, <<>>),
                                   rng |-> sh.rng]))

\* build_selection up to first_pass = head + tail
Start ==
    /\ pc = "start"
    /\ \E entropy \in Entropy :
       \E h \in { BuildHead(preferred_head,
                            EffectiveCandidates(preferred_candidates, pool_items),
                            max_head_items, RandomSeed(seed, entropy)) } :
       \E tail \in { Shuffle(NotUsed(pool_items, Paths(h.head)), h.rng) } :
            /\ head_candidates' = h.tokens
            /\ head' = h.head
            /\ used_paths' = Paths(h.head)
            /\ rng' = tail.rng
            /\ remaining' = FirstPass(h.head, tail.seq)
    /\ selection' = <<>>
    /\ total' = 0
    /\ pc' = "first_pass"
    /\ UNCHANGED << inputs, call, first_result, notSel >>

\* one iteration of a walk: append, mark used, accumulate
WalkItem ==
    /\ selection' = Append(selection, Head(remaining))
    /\ used_paths' = used_paths \cup { Head(remaining).path }
    /\ total' = total + Head(remaining).dur
    /\ remaining' = Tail(remaining)

\* for item in first_pass: ...; if total >= target_seconds: return
FirstPassStep ==
    /\ pc = "first_pass"
    /\ remaining # <<>>
    /\ WalkItem
    /\ pc' = IF TargetReached(total', target_seconds) THEN "done" ELSE "first_pass"
    /\ UNCHANGED << inputs, rng, head_candidates, head, call, first_result, notSel >>

\* first_pass exhausted: fall through to the while loop
FirstPassExhausted ==
    /\ pc = "first_pass"
    /\ remaining = <<>>
    /\ pc' = "while"
    /\ UNCHANGED << inputs, rng, selection, total, used_paths, head_candidates, head, remaining,
                    call, first_result, notSel >>

\* while total < target_seconds: cycle_once() up to its shuffle
CycleOnceStart ==
    /\ pc = "while"
    /\ ~ TargetReached(total, target_seconds)
    /\ \E c \in { CycleRemaining(pool_items, used_paths) } :
       \E sh \in { Shuffle(c.items, rng) } :
          /\ used_paths' = c.used
          /\ remaining' = sh.seq
          /\ rng' = sh.rng
    /\ pc' = "cycle"
    /\ UNCHANGED << inputs, selection, total, head_candidates, head, call, first_result, notSel >>

\* the while condition is false: return selection, total
WhileExit ==
    /\ pc = "while"
    /\ TargetReached(total, target_seconds)
    /\ pc' = "done"
    /\ UNCHANGED << inputs, rng, selection, total, used_paths, head_candidates, head, remaining,
                    call, first_result, notSel >>

\* for item in remaining: ...; if total >= target_seconds: return True (break)
CycleStep ==
    /\ pc = "cycle"
    /\ remaining # <<>>
    /\ WalkItem
    /\ pc' = IF TargetReached(total', target_seconds) THEN "done" ELSE "cycle"
    /\ UNCHANGED << inputs, rng, head_candidates, head, call, first_result, notSel >>

\* cycle_once returns False: back to the while test
CycleExhausted ==
    /\ pc = "cycle"
    /\ remaining = <<>>
    /\ pc' = "while"
    /\ UNCHANGED << inputs, rng, selection, total, used_paths, head_candidates, head, remaining,
                    call, first_result, notSel >>

Next ==
    \/ Call
    \/ Start
    \/ FirstPassStep
    \/ FirstPassExhausted
    \/ CycleOnceStart
    \/ WhileExit
    \/ CycleStep
    \/ CycleExhausted

Spec == Init /\ [][Next]_vars

FairNext ==
    \/ CallShort
    \/ Start
    \/ FirstPassStep
    \/ FirstPassExhausted
    \/ CycleOnceStart
    \/ WhileExit
    \/ CycleStep
    \/ CycleExhausted

\* build_selection is straight-line sequential code: a step that is possible
\* is eventually taken
FairSpec == Init /\ [][FairNext]_vars /\ WF_vars(FairNext)

\* the calls that are repeated: two preference tokens at most
CallOnce == CallWith(SeqsUpTo(Tokens, 2), {None} \cup 0..MaxSeed)

\* the caller keeps the first result and calls again with the same arguments
CallAgain ==
    /\ pc = "done"
    /\ call = 1
    /\ first_result' = [selection |-> selection, total |-> total]
    /\ call' = 2
    /\ pc' = "start"
    /\ UNCHANGED << inputs, rng, selection, total, used_paths, head_candidates, head, remaining,
                    notSel >>

TwiceNext ==
    \/ CallOnce
    \/ Start
    \/ FirstPassStep
    \/ FirstPassExhausted
    \/ CycleOnceStart
    \/ WhileExit
    \/ CycleStep
    \/ CycleExhausted
    \/ CallAgain

TwiceSpec == Init /\ [][TwiceNext]_vars

\* ------------------------------------------- head resolution in detail
\* a library as the collectors build it from two gospel folders and a psalm
\* folder: two records for Mark 4 and for psalm 23 under different paths,
\* and a psalm file whose name carries no number
HeadLibrary ==
    << TrackItem("Mark/mark 04.mp3", "gospel", None, "marc", 4, "Marc 4", 2),
       TrackItem("ps23.mp3", "psalm", 23, "", None, "psalm 23", 2),
       TrackItem("intro.mp3", "psalm", None, "", None, "intro", 1),
       TrackItem("Marc/marc 4.mp3", "gospel", None, "marc", 4, "Marc 4", 1),
       TrackItem("psalm_023b.mp3", "psalm", 23, "", None, "psalm 23", 1),
       TrackItem("ps91.mp3", "psalm", 91, "", None, "psalm 91", 3) >>

Reverse(seq) == [i \in 1..Len(seq) |-> seq[Len(seq) + 1 - i]]

\* tokens of every sort: integers with and without a record, book spellings
\* that normalize to the same book, a known book without a record, an
\* unknown book, a book without a chapter number, and chapter 0
HeadTokens ==
    { IntTok(23), IntTok(91), IntTok(7),
      StrTok("mark", 4), StrTok("marc", 4), StrTok("luke", 4),
      StrTok("acts", 4), StrTok("mark", None), StrTok("mark", 0) }

HeadCandidateArgs ==
    { [isNone |-> TRUE, items |-> <<>>],
      [isNone |-> FALSE, items |-> HeadLibrary],
      [isNone |-> FALSE, items |-> Reverse(HeadLibrary)],
      [isNone |-> FALSE, items |-> SelectType(HeadLibrary, "psalm")] }

\* a call whose preferred_head and preferred_candidates are drawn from the
\* sets above, over an empty, a one-clip or a three-clip pool
CallHead ==
    /\ pc = "idle"
    /\ pool_items' \in { <<>>, SubSeq(HeadLibrary, 1, 1), SubSeq(HeadLibrary, 1, 3) }
    /\ target_seconds' \in {0, MaxTarget}
    /\ preferred_head' \in SeqsUpTo(HeadTokens, MaxHead)
    /\ preferred_candidates' \in HeadCandidateArgs
    /\ seed' \in {0, MaxSeed}
    /\ pc' = "start"
    /\ UNCHANGED << max_head_items, rng, selection, total, used_paths,
                    head_candidates, head, remaining, call, first_result, notSel >>

HeadNext ==
    \/ CallHead
    \/ Start
    \/ FirstPassStep
    \/ FirstPassExhausted
    \/ CycleOnceStart
    \/ WhileExit
    \/ CycleStep
    \/ CycleExhausted

HeadSpec == Init /\ [][HeadNext]_vars

\* ------------------------------------------------------ write_chapters
ChapterDurs == { 7, 50, 100, 595, 35990 }
ChapterLabels == { "A", "B" }
OffsetArgs == { <<>>, Opt(0 - 10), Opt(0), Opt(30), Opt(32), Opt(150) }

TrackMeta == [dur : ChapterDurs, label : ChapterLabels]

InitChapters ==
    /\ tracks_with_meta \in SeqsUpTo(TrackMeta, MaxTracks)
    /\ offset_arg \in OffsetArgs
    /\ ChaptersIdle
    /\ cpc = "start"
    /\ max_head_items = None
    /\ ThumbNotCalled
    /\ LauncherNotStarted
    /\ AudioNotPlaced
    /\ WebNotServed
    /\ NormNotCalled
    /\ SelectionNotCalled
    /\ CollectNotCalled
    /\ PlaylistNotCalled

\* lines = []; t = 0.0; offset_first = max(0.0, offset_first or 0.0)
ChaptersStart ==
    /\ cpc = "start"
    /\ lines' = <<>>
    /\ t' = 0
    /\ offset_first' = ClampOffset(offset_arg)
    /\ idx' = 0
    /\ cpc' = "loop"
    /\ UNCHANGED << chInputs, chapters_file, notCh >>

\* an iteration that stamps the line after advancing the clock
ChaptersStepLate ==
    /\ cpc = "loop"
    /\ idx < Len(tracks_with_meta)
    /\ LET i == idx + 1
           track == tracks_with_meta[i]
       IN /\ t' = t + EffectiveDuration(i, track.dur, offset_first)
          /\ lines' = Append(lines, [ts |-> FormatTs(t'), label |-> track.label])
          /\ idx' = i
    /\ UNCHANGED << chInputs, offset_first, cpc, chapters_file, notCh >>

\* one iteration of the loop over enumerate(tracks_with_meta, start=1)
ChaptersStep ==
    /\ cpc = "loop"
    /\ idx < Len(tracks_with_meta)
    /\ LET i == idx + 1
           track == tracks_with_meta[i]
       IN /\ lines' = Append(lines, [ts |-> FormatTs(t), label |-> track.label])
          /\ t' = t + EffectiveDuration(i, track.dur, offset_first)
          /\ idx' = i
    /\ UNCHANGED << chInputs, offset_first, cpc, chapters_file, notCh >>

\* chapters_path.write_text("\n".join(lines))
ChaptersWrite ==
    /\ cpc = "loop"
    /\ idx = Len(tracks_with_meta)
    /\ chapters_file' = [k \in 1..Len(lines) |-> LineText(lines[k])]
    /\ cpc' = "done"
    /\ UNCHANGED << chInputs, offset_first, lines, t, idx, notCh >>

NextChapters ==
    \/ ChaptersStart
    \/ ChaptersStep
    \/ ChaptersWrite

SpecChapters == InitChapters /\ [][NextChapters]_vars

\* ------------------------------------------------------------ collectors
\* what ffprobe_duration_seconds gets from ffprobe: an output float() reads
\* as a number of ticks, or a failed run / an output such as 'N/A'
Probed(value) == [ok |-> TRUE, out |-> value]
ProbeFailed == [ok |-> FALSE, out |-> 0]

\* try: return float(out)  except Exception: return 0.0
FfprobeDurationSeconds(mp3) == IF mp3.probe.ok THEN mp3.probe.out ELSE 0

\* a skip test that lets a zero duration through
DurationUnusableBelowZero(dur) == dur < 0

\* if dur <= 0.0: ... continue
DurationUnusable(dur) == dur <= 0

\* an entry of the psalm folder: name and stem, the rank of its path in
\* sorted order, its extension, whether it is a regular file, the number
\* _PSALM_RE finds in the stem (None when it finds none), the probe outcome
PsalmEntry(name, stem, rank, ext, is_file, num, probe) ==
    [name |-> name, stem |-> stem, rank |-> rank, ext |-> ext,
     is_file |-> is_file, num |-> num, probe |-> probe]

PsalmEntries ==
    { PsalmEntry("cover.jpg", "cover", 1, "jpg", TRUE, None, ProbeFailed),
      PsalmEntry("intro.mp3", "intro", 2, "mp3", TRUE, None, Probed(20)),
      PsalmEntry("psalm_023.mp3", "psalm_023", 3, "mp3", TRUE, 23, ProbeFailed),
      PsalmEntry("psalm_091.mp3", "psalm_091", 4, "mp3", TRUE, 91, Probed(30)),
      PsalmEntry("psalm_100.mp3", "psalm_100", 5, "mp3", TRUE, 100, Probed(0)),
      PsalmEntry("psalm_150.mp3", "psalm_150", 6, "mp3", TRUE, 150, Probed(0 - 5)),
      PsalmEntry("sub.mp3", "sub", 7, "mp3", FALSE, None, ProbeFailed) }

\* an entry <parent>/<stem>.mp3 of the gospel root: in_stem is the book and
\* chapter _GOSPEL_RE finds in the stem (StrTok("", None) when it finds
\* none), lead the number the stem begins with (None when it begins
\* otherwise), which is what the regex can find after the parent's name in
\* parent + " " + stem
GospelEntry(name, parent, rank, is_file, in_stem, lead, probe) ==
    [name |-> name, parent |-> parent, rank |-> rank, ext |-> "mp3",
     is_file |-> is_file, in_stem |-> in_stem, lead |-> lead, probe |-> probe]

GospelEntries ==
    { GospelEntry("Acts/01.mp3", "acts", 1, TRUE, StrTok("", None), 1, Probed(20)),
      GospelEntry("Luke/luke 12.mp3", "luke", 2, TRUE, StrTok("luke", 12), None, Probed(20)),
      GospelEntry("Mark/04.mp3", "mark", 3, TRUE, StrTok("", None), 4, Probed(10)),
      GospelEntry("Mark/mark 0.mp3", "mark", 4, TRUE, StrTok("mark", 0), None, Probed(10)),
      GospelEntry("Mark/mark 06.mp3", "mark", 5, TRUE, StrTok("mark", 6), None, ProbeFailed),
      GospelEntry("Mark/mark_05.mp3", "mark", 6, TRUE, StrTok("", None), None, Probed(10)) }

\* a folder holding the entries S
Dir(S) == [exists |-> TRUE, entries |-> S]

\* src.glob("*.mp3") / root.glob("*/*.mp3")
Glob(dir) == { e \in dir.entries : e.ext = "mp3" }

RECURSIVE SortedDescending(_)
\* a listing in descending order of path
SortedDescending(S) ==
    IF S = {} THEN <<>>
    ELSE LET m == CHOOSE e \in S : \A o \in S : e.rank >= o.rank
         IN <<m>> \o SortedDescending(S \ {m})

RECURSIVE Sorted(_)
\* sorted(...): ascending order of path
Sorted(S) ==
    IF S = {} THEN <<>>
    ELSE LET m == CHOOSE e \in S : \A o \in S : e.rank <= o.rank
         IN <<m>> \o Sorted(S \ {m})

\* the psalm record of collect_psalms
PsalmRecord(mp3, dur) ==
    TrackItem(mp3.name, "psalm", mp3.num, "", None,
              IF mp3.num # None THEN "psalm " \o ToString(mp3.num) ELSE mp3.stem,
              dur)

\* str.title() on the lower-case names this model uses
Title(name) ==
    IF name = "acts" THEN "Acts"
    ELSE IF name = "saint luke" THEN "Saint Luke"
    ELSE IF name = "mark" THEN "Mark"
    ELSE name

\* the book spelling _GOSPEL_RE finds at the end of a name, which is the
\* name itself unless other words come before the book
BookAtEnd(name) == IF name = "saint luke" THEN "luke" ELSE name

\* _display_gospel_name: the mapping, name.title() for a name outside it
DisplayGospelName(name) ==
    IF name = "marc" THEN "Marc"
    ELSE IF name = "luke" THEN "Luke"
    ELSE IF name = "matthew" THEN "Matthew"
    ELSE IF name = "john" THEN "John"
    ELSE Title(name)

\* name_infer, ch_infer: from the stem, else the parent folder's name with
\* the chapter found in parent + " " + stem
GospelRefOf(mp3) ==
    LET in_stem == ParseGospelRef(mp3.in_stem)
    IN IF in_stem.name # "" THEN in_stem
       ELSE [name |-> NormGospelName(mp3.parent),
             chapter |-> ParseGospelRef(StrTok(BookAtEnd(mp3.parent),
                                               mp3.lead)).chapter]

\* if not name_infer or not ch_infer: ... continue
RefRecognized(ref) == ref.name # "" /\ ref.chapter # None /\ ref.chapter # 0

\* the gospel record of collect_gospels
GospelRecord(mp3, ref, dur) ==
    TrackItem(mp3.name, "gospel", None, ref.name, ref.chapter,
              DisplayGospelName(ref.name) \o " " \o ToString(ref.chapter), dur)

\* raise SystemExit(message)
Raise(message) ==
    /\ col_pc' = "failed"
    /\ col_error' = message

\* collect_psalms up to its loop: the folder must exist and list a file
CollectPsalmsStart ==
    /\ col_pc = "call_psalms"
    /\ \E listing \in { Sorted({ e \in Glob(trimmed_dir) : e.is_file }) } :
          IF ~ trimmed_dir.exists
          THEN Raise("[ERROR] Missing psalm directory") /\ files' = <<>>
          ELSE IF listing = <<>>
          THEN Raise("[ERROR] No MP3 found") /\ files' = <<>>
          ELSE files' = listing /\ col_pc' = "psalms_loop" /\ col_error' = ""
    /\ fi' = 0
    /\ items' = <<>>
    /\ UNCHANGED << colInputs, notCol >>

\* one iteration of for mp3 in files
CollectPsalmsStep ==
    /\ col_pc = "psalms_loop"
    /\ fi < Len(files)
    /\ \E dur \in { FfprobeDurationSeconds(files[fi + 1]) } :
          items' = IF DurationUnusable(dur) THEN items
                   ELSE Append(items, PsalmRecord(files[fi + 1], dur))
    /\ fi' = fi + 1
    /\ UNCHANGED << colInputs, files, col_pc, col_error, notCol >>

\* a collector that returns whatever it has, an empty list too
CollectPsalmsEndLenient ==
    /\ col_pc = "psalms_loop"
    /\ fi = Len(files)
    /\ col_pc' = "psalms_returned"
    /\ UNCHANGED << colInputs, files, fi, items, col_error, notCol >>

\* if not items: raise SystemExit("[ERROR] No usable psalms."); return items
CollectPsalmsEnd ==
    /\ col_pc = "psalms_loop"
    /\ fi = Len(files)
    /\ IF items = <<>>
       THEN Raise("[ERROR] No usable psalms.")
       ELSE col_pc' = "psalms_returned" /\ col_error' = ""
    /\ UNCHANGED << colInputs, files, fi, items, notCol >>

\* collect_gospels up to its loop: a missing root gives []
CollectGospelsStart ==
    /\ col_pc = "call_gospels"
    /\ IF ~ gospel_root.exists
       THEN files' = <<>> /\ col_pc' = "gospels_returned"
       ELSE files' = Sorted(Glob(gospel_root)) /\ col_pc' = "gospels_loop"
    /\ fi' = 0
    /\ items' = <<>>
    /\ UNCHANGED << colInputs, col_error, notCol >>

\* one iteration of for mp3 in sorted(root.glob("*/*.mp3"))
CollectGospelsStep ==
    /\ col_pc = "gospels_loop"
    /\ fi < Len(files)
    /\ \E ref \in { GospelRefOf(files[fi + 1]) } :
       \E dur \in { FfprobeDurationSeconds(files[fi + 1]) } :
          items' = IF \/ ~ files[fi + 1].is_file
                      \/ ~ RefRecognized(ref)
                      \/ DurationUnusable(dur)
                   THEN items
                   ELSE Append(items, GospelRecord(files[fi + 1], ref, dur))
    /\ fi' = fi + 1
    /\ UNCHANGED << colInputs, files, col_pc, col_error, notCol >>

\* return items
CollectGospelsEnd ==
    /\ col_pc = "gospels_loop"
    /\ fi = Len(files)
    /\ col_pc' = "gospels_returned"
    /\ UNCHANGED << colInputs, files, fi, items, col_error, notCol >>

PsalmDirs == { NoDir } \cup { Dir(S) : S \in SUBSET PsalmEntries }
GospelDirs == { NoDir } \cup { Dir(S) : S \in SUBSET GospelEntries }

\* one of the collectors is called over some content of its folder
InitCollect ==
    /\ \/ col_pc = "call_psalms" /\ trimmed_dir \in PsalmDirs /\ gospel_root = NoDir
       \/ col_pc = "call_gospels" /\ gospel_root \in GospelDirs /\ trimmed_dir = NoDir
    /\ CollectIdle
    /\ max_head_items = None
    /\ ThumbNotCalled
    /\ LauncherNotStarted
    /\ AudioNotPlaced
    /\ WebNotServed
    /\ NormNotCalled
    /\ SelectionNotCalled
    /\ ChaptersNotCalled
    /\ PlaylistNotCalled

NextCollect ==
    \/ CollectPsalmsStart
    \/ CollectPsalmsStep
    \/ CollectPsalmsEnd
    \/ CollectGospelsStart
    \/ CollectGospelsStep
    \/ CollectGospelsEnd

SpecCollect == InitCollect /\ [][NextCollect]_vars

\* --------------------------------------------------------------- export
RECURSIVE Digits(_)
\* str(n) for n >= 0: its decimal digits
Digits(n) == IF n < 10 THEN << n >> ELSE Append(Digits(n \div 10), n % 10)

RECURSIVE ZFill(_, _)
\* str.zfill(width)
ZFill(digs, width) ==
    IF Len(digs) >= width THEN digs ELSE ZFill(<< 0 >> \o digs, width)

\* a pad that stays at two digits
PadTwoDigits(n) == 2

\* pad = max(2, len(str(len(selection))))
Pad(n) == Max(2, Len(Digits(n)))

\* src.name: the last component of the path
BaseName(path) ==
    CASE path = "Luke/luke 12.mp3" -> "luke 12.mp3"
      [] path = "Mark/04.mp3" -> "04.mp3"
      [] OTHER -> path

\* f"{str(idx).zfill(pad)}_{str(timeline_idx).zfill(2)}_{src.name}"
ExportName(i, width, tl, base) ==
    [idx |-> ZFill(Digits(i), width), tl |-> ZFill(Digits(tl), 2), base |-> base]

\* the characters of a lower-cased basename that place it in a sort: the
\* code of its first character, then its rank among the basenames in use
BaseKey(base) ==
    CASE base = "04.mp3" -> << 48, 1 >>
      [] base = "intro.mp3" -> << 105, 2 >>
      [] base = "luke 12.mp3" -> << 108, 3 >>
      [] base = "mark4.mp3" -> << 109, 4 >>
      [] base = "old.mp3" -> << 111, 5 >>
      [] base = "ps23.mp3" -> << 112, 6 >>
      [] base = "ps91.mp3" -> << 112, 7 >>
      [] base = "psalm_023b.mp3" -> << 112, 8 >>
      [] base = "psalm_091.mp3" -> << 112, 9 >>
      [] OTHER -> << 122, 10 >>

\* natural_key: os.path.basename(path).lower(), as character codes
\* ('0'..'9' are 48..57, '_' is 95)
NaturalKey(name) ==
    [k \in 1..Len(name.idx) |-> 48 + name.idx[k]] \o << 95 >>
        \o [k \in 1..Len(name.tl) |-> 48 + name.tl[k]] \o << 95 >>
        \o BaseKey(name.base)

RECURSIVE LexLess(_, _)
\* a < b for two strings, character by character
LexLess(a, b) ==
    IF b = <<>> THEN FALSE
    ELSE IF a = <<>> THEN TRUE
    ELSE IF Head(a) # Head(b) THEN Head(a) < Head(b)
    ELSE LexLess(Tail(a), Tail(b))

\* clean_track_dir that only makes sure the folder is there
CleanTrackDirKeeping(dir) == [exists |-> TRUE, files |-> dir.files]

\* clean_track_dir: rmtree if the folder exists, then mkdir
CleanTrackDir(dir) == [exists |-> TRUE, files |-> {}]

\* pad = ...; out = []
CopyStart ==
    /\ pl_pc = "copy_call"
    /\ pad' = Pad(Len(selection))
    /\ out' = <<>>
    /\ ci' = 0
    /\ pl_pc' = "copy_loop"
    /\ UNCHANGED << plInputs, track_dir, psalms, notPl >>

\* one iteration of for idx, item in enumerate(selection, start=1):
\* shutil.copy2(src, dst) writes dst, replacing a file of that name
CopyStep ==
    /\ pl_pc = "copy_loop"
    /\ ci < Len(selection)
    /\ \E item \in { selection[ci + 1] } :
       \E dst \in { ExportName(ci + 1, pad, timeline_idx, BaseName(item.path)) } :
          /\ track_dir' =
                [track_dir EXCEPT !.files =
                    { f \in @ : f.name # dst } \cup { [name |-> dst, content |-> item.path] }]
          /\ out' = Append(out, [dst |-> dst, dur |-> item.dur, label |-> item.label])
    /\ ci' = ci + 1
    /\ UNCHANGED << plInputs, psalms, pad, pl_pc, notPl >>

\* return out
CopyReturn ==
    /\ pl_pc = "copy_loop"
    /\ ci = Len(selection)
    /\ pl_pc' = "copied"
    /\ UNCHANGED << plInputs, track_dir, psalms, pad, out, ci, notPl >>

\* a selection of n clips that recycles three clips of the library
Recycled(n) == [k \in 1..n |-> Catalog[((k - 1) % 3) + 1]]

\* copy_and_rename is called on a selection of some length over an empty
\* track folder
InitCopy ==
    /\ \E n \in {0, 1, 9, 10, 11, 99, 100, MaxClips} : selection = Recycled(n)
    /\ target_seconds = SumDur(selection)
    /\ total = target_seconds
    /\ timeline_idx \in {3, 12}
    /\ pl_pc = "copy_call"
    /\ track_dir = CleanTrackDir(NoTrackDir)
    /\ include_gospel = TRUE
    /\ earlier_export = NoTrackDir
    /\ earlier_chapters = <<>>
    /\ ExportIdle
    /\ max_head_items = None
    /\ ThumbNotCalled
    /\ LauncherNotStarted
    /\ AudioNotPlaced
    /\ WebNotServed
    /\ NormNotCalled
    /\ pool_items = SubSeq(Catalog, 1, 3)
    /\ preferred_head = <<>>
    /\ preferred_candidates = [isNone |-> TRUE, items |-> <<>>]
    /\ seed = None
    /\ rng = 0
    /\ used_paths = {}
    /\ head_candidates = <<>>
    /\ head = <<>>
    /\ remaining = <<>>
    /\ call = 1
    /\ first_result = [selection |-> <<>>, total |-> 0]
    /\ pc = "done"
    /\ ChaptersNotCalled
    /\ CollectNotCalled

NextCopy ==
    \/ CopyStart
    \/ CopyStep
    \/ CopyReturn

SpecCopy == InitCopy /\ [][NextCopy]_vars

\* ------------------------------------------------------- build_playlist
\* settings.core.target_seconds, in ticks
CoreTargetSeconds == 10 * MaxTarget + 20

\* settings.core.trim_first_audio_seconds (3.2 s), in ticks
TrimFirstAudio == Opt(32)

\* target = target_seconds or self.settings.core.target_seconds
EffectiveTarget(arg) == IF arg = None \/ arg = 0 THEN CoreTargetSeconds ELSE arg

RECURSIVE CoerceIterableStr(_)
\* coerce_iterable_str: integers stay, a string of digits becomes an
\* integer, a blank string is dropped, any other string stays.  A string
\* token without a book stands for a string of digits (chap) or a blank
\* string (chap None)
CoerceIterableStr(toks) ==
    IF toks = <<>> THEN <<>>
    ELSE LET tok == Head(toks)
             rest == CoerceIterableStr(Tail(toks))
         IN IF tok.kind = "str" /\ tok.book = ""
            THEN IF tok.chap = None THEN rest ELSE << IntTok(tok.chap) >> \o rest
            ELSE << tok >> \o rest

\* pref = list(settings.audio.preferred_head or []) extended by the coerced
\* preferred_head argument when that is given
CombinedHead(setting, arg) ==
    IF arg = <<>> THEN setting ELSE setting \o CoerceIterableStr(arg)

\* the psalm entries with the given names
PsalmsNamed(names) == { e \in PsalmEntries : e.name \in names }

\* the psalm folders a playlist is built over: absent, without audio file,
\* without usable file, and two usable ones
PlaylistPsalmDirs ==
    { NoDir,
      Dir(PsalmsNamed({"cover.jpg", "sub.mp3"})),
      Dir(PsalmsNamed({"psalm_023.mp3", "psalm_100.mp3"})),
      Dir(PsalmsNamed({"psalm_091.mp3"})),
      Dir(PsalmsNamed({"intro.mp3", "psalm_023.mp3", "psalm_091.mp3"})) }

\* what an earlier export for the same index can have left in trackNN:
\* nothing at all, an empty folder, or files of other lengths and widths,
\* one of them under a name the new export can use
EarlierExports ==
    { NoTrackDir,
      [exists |-> TRUE, files |-> {}],
      [exists |-> TRUE,
       files |-> { [name |-> ExportName(1, 2, 3, "psalm_091.mp3"), content |-> "stale"],
                   [name |-> ExportName(7, 2, 3, "old.mp3"), content |-> "old.mp3"],
                   [name |-> ExportName(2, 3, 3, "intro.mp3"), content |-> "intro.mp3"] }] }

\* build_playlist(timeline_idx, target_seconds, preferred_head) is about to
\* run over some library and some earlier state of trackNN / chaptersNN.txt
InitPlaylist ==
    /\ trimmed_dir \in PlaylistPsalmDirs
    /\ gospel_root \in { NoDir, Dir(GospelEntries) }
    /\ CollectIdle
    /\ col_pc = "idle"
    /\ include_gospel \in BOOLEAN
    /\ timeline_idx = 3
    /\ earlier_export \in EarlierExports
    /\ earlier_chapters \in { <<>>, << "0:00:00 - old" >> }
    /\ track_dir = earlier_export
    /\ ExportIdle
    /\ pl_pc = "call"
    /\ max_head_items = None
    /\ ThumbNotCalled
    /\ LauncherNotStarted
    /\ AudioNotPlaced
    /\ WebNotServed
    /\ NormNotCalled
    /\ SelectionNotCalled
    /\ tracks_with_meta = <<>>
    /\ offset_arg = <<>>
    /\ offset_first = 0
    /\ lines = <<>>
    /\ t = 0
    /\ idx = 0
    /\ cpc = "idle"
    /\ chapters_file = earlier_chapters

\* a build_playlist that empties trackNN before it collects
PlCallCleaning ==
    /\ pl_pc = "call"
    /\ col_pc' = "call_psalms"
    /\ pl_pc' = "collect_psalms"
    /\ track_dir' = CleanTrackDir(track_dir)
    /\ UNCHANGED << colInputs, files, fi, items, col_error, plInputs,
                    psalms, pad, out, ci, selVars, chVars, thVars, syVars, nmVars, wbVars, auVars >>

\* psalms = self.collect_psalms(): the call
PlCall ==
    /\ pl_pc = "call"
    /\ col_pc' = "call_psalms"
    /\ pl_pc' = "collect_psalms"
    /\ UNCHANGED << colInputs, files, fi, items, col_error, plInputs, track_dir,
                    psalms, pad, out, ci, selVars, chVars, thVars, syVars, nmVars, wbVars, auVars >>

\* collect_psalms raised: the SystemExit leaves build_playlist
PlAbort ==
    /\ pl_pc = "collect_psalms"
    /\ col_pc = "failed"
    /\ pl_pc' = "aborted"
    /\ UNCHANGED << plInputs, track_dir, psalms, pad, out, ci, notPl >>

\* collect_psalms returned; if include_gospel: pool += self.collect_gospels()
PlPsalms ==
    /\ pl_pc = "collect_psalms"
    /\ col_pc = "psalms_returned"
    /\ psalms' = items
    /\ IF include_gospel
       THEN col_pc' = "call_gospels" /\ pl_pc' = "collect_gospels"
       ELSE col_pc' = col_pc /\ pl_pc' = "select_call"
    /\ UNCHANGED << colInputs, files, fi, items, col_error, plInputs, track_dir,
                    pad, out, ci, selVars, chVars, thVars, syVars, nmVars, wbVars, auVars >>

\* the call of build_selection(pool, target, pref, psalms, random_seed)
PlSelect ==
    /\ \/ pl_pc = "select_call"
       \/ pl_pc = "collect_gospels" /\ col_pc = "gospels_returned"
    /\ pc = "idle"
    /\ pool_items' = IF pl_pc = "collect_gospels" THEN psalms \o items ELSE psalms
    /\ \E arg \in {None, 0, 20} : target_seconds' = EffectiveTarget(arg)
    /\ \E setting \in { <<>>, << IntTok(91) >> } :
       \E arg \in { <<>>, << StrTok("", 91), StrTok("luke", 12) >> } :
          preferred_head' = CombinedHead(setting, arg)
    /\ preferred_candidates' = [isNone |-> FALSE, items |-> psalms]
    /\ seed' \in {None, 0}
    /\ pc' = "start"
    /\ pl_pc' = "select"
    /\ UNCHANGED << max_head_items, rng, selection, total, used_paths,
                    head_candidates, head, remaining, call, first_result,
                    plInputs, track_dir, psalms, pad, out, ci, chVars, colVars,
                    thVars, syVars, nmVars, wbVars, auVars >>

\* build_selection returned: self.clean_track_dir(track_dir)
PlClean ==
    /\ pl_pc = "select"
    /\ pc = "done"
    /\ track_dir' = CleanTrackDir(track_dir)
    /\ pl_pc' = "copy_call"
    /\ UNCHANGED << plInputs, psalms, pad, out, ci, notPl >>

\* copy_and_rename returned: the call of write_chapters(chapters_path,
\* tracks, offset_first=trim_first_audio_seconds)
PlChapters ==
    /\ pl_pc = "copied"
    /\ tracks_with_meta' = [k \in 1..Len(out) |-> [dur |-> out[k].dur, label |-> out[k].label]]
    /\ offset_arg' = TrimFirstAudio
    /\ cpc' = "start"
    /\ pl_pc' = "chapters"
    /\ UNCHANGED << offset_first, lines, t, idx, chapters_file,
                    plInputs, track_dir, psalms, pad, out, ci, selVars, colVars,
                    thVars, syVars, nmVars, wbVars, auVars >>

\* return PlaylistResult(...)
PlReturn ==
    /\ pl_pc = "chapters"
    /\ cpc = "done"
    /\ pl_pc' = "returned"
    /\ UNCHANGED << plInputs, track_dir, psalms, pad, out, ci, notPl >>

\* the pool of a playlist is never empty, so the while test of
\* build_selection is never reached with the target met (no WhileExit)
NextPlaylist ==
    \/ PlCall
    \/ CollectPsalmsStart
    \/ CollectPsalmsStep
    \/ CollectPsalmsEnd
    \/ PlAbort
    \/ PlPsalms
    \/ CollectGospelsStart
    \/ CollectGospelsStep
    \/ CollectGospelsEnd
    \/ PlSelect
    \/ Start
    \/ FirstPassStep
    \/ FirstPassExhausted
    \/ CycleOnceStart
    \/ CycleStep
    \/ CycleExhausted
    \/ PlClean
    \/ CopyStart
    \/ CopyStep
    \/ CopyReturn
    \/ PlChapters
    \/ ChaptersStart
    \/ ChaptersStep
    \/ ChaptersWrite
    \/ PlReturn

SpecPlaylist == InitPlaylist /\ [][NextPlaylist]_vars

\* ------------------------------------------------- ensure_yt_thumbnail
\* ImageSettings.yt_thumb_max_bytes = 2 * 1024 * 1024
YtThumbMaxBytes == 2097152

\* ImageSettings.yt_thumb_target_bytes
YtThumbTargetBytes == 1800000

\* target_bytes = min(max_bytes, yt_thumb_target_bytes or max_bytes)
TargetBytes(setting) ==
    LET wanted == IF setting = 0 THEN YtThumbMaxBytes ELSE setting
    IN IF wanted < YtThumbMaxBytes THEN wanted ELSE YtThumbMaxBytes

\* len(_save_jpeg(im_jpg, quality)): what the codec makes of this image, a
\* size that grows with the quality asked for
SaveJpeg(quality) == jpeg_floor + quality * jpeg_slope

\* _copy_as_is(img_path): the image copied under its own name; the size
\* returned is the copy's
CopyAsIs ==
    [path |-> "yt_thumbs/im01" \o img_suffix, orig_bytes |-> orig_bytes,
     new_bytes |-> orig_bytes]

\* the file target.write_bytes(data) leaves, and the tuple returned for it
Written(suffix, len) ==
    [path |-> "yt_thumbs/im01_yt" \o suffix, orig_bytes |-> orig_bytes,
     new_bytes |-> len]

\* ensure_yt_thumbnail(img_path) is called on some image under some setting
InitThumb ==
    /\ img_exists \in BOOLEAN
    /\ orig_bytes \in {1500000, YtThumbMaxBytes, YtThumbMaxBytes + 1, 5000000}
    /\ img_suffix \in {".png", ".jpg"}
    /\ img_readable \in BOOLEAN
    /\ png_len \in {YtThumbTargetBytes, YtThumbTargetBytes + 1, 4000000}
    /\ jpeg_floor \in {0, 900000, 3000000}
    /\ jpeg_slope \in {20000, 30000}
    /\ yt_thumb_target_bytes \in {0, YtThumbTargetBytes, 3000000}
    /\ ThumbIdle
    /\ th_pc = "call"
    /\ max_head_items = None
    /\ SelectionNotCalled
    /\ ChaptersNotCalled
    /\ CollectNotCalled
    /\ PlaylistNotCalled
    /\ LauncherNotStarted
    /\ AudioNotPlaced
    /\ WebNotServed
    /\ NormNotCalled

\* if not img_path.exists(): return None, 0, None
ThumbMissing ==
    /\ th_pc = "call"
    /\ ~img_exists
    /\ thumb' = NoThumb
    /\ th_pc' = "returned"
    /\ UNCHANGED << thInputs, target_bytes, lo, hi, best_data, notTh >>

\* if orig_bytes <= max_bytes: return _copy_as_is(img_path)
ThumbSmall ==
    /\ th_pc = "call"
    /\ img_exists
    /\ orig_bytes <= YtThumbMaxBytes
    /\ target_bytes' = TargetBytes(yt_thumb_target_bytes)
    /\ thumb' = CopyAsIs
    /\ th_pc' = "returned"
    /\ UNCHANGED << thInputs, lo, hi, best_data, notTh >>

\* the image is larger than max_bytes: on to the first try block
ThumbLarge ==
    /\ th_pc = "call"
    /\ img_exists
    /\ orig_bytes > YtThumbMaxBytes
    /\ target_bytes' = TargetBytes(yt_thumb_target_bytes)
    /\ th_pc' = "png"
    /\ UNCHANGED << thInputs, lo, hi, best_data, thumb, notTh >>

\* the first try block returns the optimized PNG of a .png image when it
\* fits target_bytes
ThumbPng ==
    /\ th_pc = "png"
    /\ img_readable
    /\ img_suffix = ".png"
    /\ png_len <= target_bytes
    /\ thumb' = Written(".png", png_len)
    /\ th_pc' = "returned"
    /\ UNCHANGED << thInputs, target_bytes, lo, hi, best_data, notTh >>

\* the first try block falls through: Image.open raised (except: pass), the
\* image is no .png, or its optimized PNG is larger than target_bytes
ThumbPngSkip ==
    /\ th_pc = "png"
    /\ ~(img_readable /\ img_suffix = ".png" /\ png_len <= target_bytes)
    /\ th_pc' = "jpeg"
    /\ UNCHANGED << thInputs, target_bytes, lo, hi, best_data, thumb, notTh >>

\* lo, hi = 50, 95; best_data = None
ThumbJpegOpen ==
    /\ th_pc = "jpeg"
    /\ img_readable
    /\ lo' = 50
    /\ hi' = 95
    /\ best_data' = None
    /\ th_pc' = "search"
    /\ UNCHANGED << thInputs, target_bytes, thumb, notTh >>

\* except Exception: return _copy_as_is(img_path), here for an image that
\* Image.open cannot read
ThumbJpegFails ==
    /\ th_pc = "jpeg"
    /\ ~img_readable
    /\ thumb' = CopyAsIs
    /\ th_pc' = "returned"
    /\ UNCHANGED << thInputs, target_bytes, lo, hi, best_data, notTh >>

\* one iteration of while lo <= hi
ThumbSearchStep ==
    /\ th_pc = "search"
    /\ lo <= hi
    /\ LET q == (lo + hi) \div 2
           data == SaveJpeg(q)
       IN IF data <= target_bytes
          THEN /\ best_data' = data
               /\ lo' = q + 1
               /\ hi' = hi
          ELSE /\ hi' = q - 1
               /\ UNCHANGED << best_data, lo >>
    /\ UNCHANGED << thInputs, target_bytes, th_pc, thumb, notTh >>

\* the loop is over: a best_data still None becomes _save_jpeg(im_jpg, 40),
\* and whatever best_data holds is written and returned
ThumbSearchEnd ==
    /\ th_pc = "search"
    /\ lo > hi
    /\ best_data' = IF best_data = None THEN SaveJpeg(40) ELSE best_data
    /\ thumb' = Written(".jpg", best_data')
    /\ th_pc' = "returned"
    /\ UNCHANGED << thInputs, target_bytes, lo, hi, notTh >>

NextThumb ==
    \/ ThumbMissing
    \/ ThumbSmall
    \/ ThumbLarge
    \/ ThumbPng
    \/ ThumbPngSkip
    \/ ThumbJpegOpen
    \/ ThumbJpegFails
    \/ ThumbSearchStep
    \/ ThumbSearchEnd

SpecThumb == InitThumb /\ [][NextThumb]_vars

\* ------------------------------------------- run_all and the web trigger
\* the indices of state["ordered"]
Images == 0..(NumImages - 1)

\* all_tracks_ready(): every image has a non-empty chosen.txt and a trackNN
\* holding mp3 files
AllTracksReady(done) == NumImages > 0 /\ done = Images

\* one more sync started; it counts for the pass when every image is ready
Counted(n) == IF AllTracksReady(chosen) THEN n + 1 ELSE n

\* main() has loaded the settings, built the app, started the server thread
\* and entered its polling loop; with reset_on_start off, earlier sessions
\* may have left some images with chosen titles and tracks
InitLauncher ==
    /\ auto_trigger_resolve \in BOOLEAN
    /\ resolve_script_exists \in BOOLEAN
    /\ chosen \in SUBSET Images
    /\ posts = 0
    /\ trigger_event = FALSE
    /\ worker_pc = "idle"
    /\ resolve_note = "None"
    /\ web_syncs = 0
    /\ main_syncs = 0
    /\ syncs_when_ready = 0
    /\ ra_pc = "poll"
    /\ max_head_items = None
    /\ SelectionNotCalled
    /\ ChaptersNotCalled
    /\ CollectNotCalled
    /\ PlaylistNotCalled
    /\ ThumbNotCalled
    /\ NormNotCalled
    /\ WebNotServed
    /\ AudioNotPlaced

\* the server thread lives as long as main() has not returned
Serving == ra_pc \in {"poll", "sync_call", "sync"}

\* _process_titles(idx, img, titles_selected): chosen.txt is written and
\* trackNN is refilled
Processed(i) ==
    /\ Serving
    /\ posts < MaxPosts
    /\ posts' = posts + 1
    /\ chosen' = chosen \cup {i}

\* POST /choose or /rerun for an image that is not the last one: titles are
\* processed and the browser is redirected to the next image
HandleTitles(i) ==
    /\ i + 1 < NumImages
    /\ Processed(i)
    /\ resolve_note' = "None"
    /\ UNCHANGED << syInputs, trigger_event, worker_pc, ra_pc, web_syncs,
                    main_syncs, syncs_when_ready, notSy >>

\* the status _trigger_resolve() returns
TriggerResolve ==
    IF ~auto_trigger_resolve THEN "disabled"
    ELSE IF ~resolve_script_exists THEN "missing"
    ELSE IF trigger_event THEN "busy"
    ELSE "started"

\* POST /choose or /rerun for the last image: titles are processed, then
\* _schedule_resolve_all() runs _trigger_resolve(), which sets trigger_event
\* and starts the worker thread unless it is disabled, the script is missing
\* or a worker is busy
HandleLastTitles ==
    /\ Processed(NumImages - 1)
    /\ resolve_note' = TriggerResolve
    /\ IF resolve_note' = "started"
       THEN trigger_event' = TRUE /\ worker_pc' = "started"
       ELSE UNCHANGED << trigger_event, worker_pc >>
    /\ UNCHANGED << syInputs, ra_pc, web_syncs, main_syncs, syncs_when_ready,
                    notSy >>

\* _worker: subprocess.Popen([python, update_resolve.py, --config, ...]),
\* whose main() calls sync_timelines(settings, only_indices=None)
WorkerPopen ==
    /\ worker_pc = "started"
    /\ Serving
    /\ worker_pc' = "waiting"
    /\ web_syncs' = web_syncs + 1
    /\ syncs_when_ready' = Counted(syncs_when_ready)
    /\ UNCHANGED << syInputs, chosen, posts, trigger_event, resolve_note,
                    ra_pc, main_syncs, notSy >>

\* the subprocess ends: proc.wait() returns; finally: trigger_event.clear()
WorkerEnd ==
    /\ worker_pc = "waiting"
    /\ worker_pc' = "idle"
    /\ trigger_event' = FALSE
    /\ UNCHANGED << syInputs, chosen, posts, resolve_note, ra_pc, web_syncs,
                    main_syncs, syncs_when_ready, notSy >>

\* time.sleep(5); if all_tracks_ready(): break   (an iteration that finds
\* the tracks not ready changes nothing)
RunAllReady ==
    /\ ra_pc = "poll"
    /\ AllTracksReady(chosen)
    /\ ra_pc' = "sync_call"
    /\ UNCHANGED << syInputs, chosen, posts, trigger_event, worker_pc,
                    resolve_note, web_syncs, main_syncs, syncs_when_ready,
                    notSy >>

\* except KeyboardInterrupt: the loop is left and main() goes on to the sync
RunAllInterrupt ==
    /\ ra_pc = "poll"
    /\ ra_pc' = "sync_call"
    /\ UNCHANGED << syInputs, chosen, posts, trigger_event, worker_pc,
                    resolve_note, web_syncs, main_syncs, syncs_when_ready,
                    notSy >>

\* sync_timelines(settings, only_indices=None) is entered in the main thread
RunAllSync ==
    /\ ra_pc = "sync_call"
    /\ ra_pc' = "sync"
    /\ main_syncs' = main_syncs + 1
    /\ syncs_when_ready' = Counted(syncs_when_ready)
    /\ UNCHANGED << syInputs, chosen, posts, trigger_event, worker_pc,
                    resolve_note, web_syncs, notSy >>

\* sync_timelines returns and main() ends; the server thread, a daemon,
\* ends with it
RunAllDone ==
    /\ ra_pc = "sync"
    /\ ra_pc' = "done"
    /\ UNCHANGED << syInputs, chosen, posts, trigger_event, worker_pc,
                    resolve_note, web_syncs, main_syncs, syncs_when_ready,
                    notSy >>

NextLauncher ==
    \/ \E i \in Images : HandleTitles(i)
    \/ HandleLastTitles
    \/ WorkerPopen
    \/ WorkerEnd
    \/ RunAllReady
    \/ RunAllInterrupt
    \/ RunAllSync
    \/ RunAllDone

SpecLauncher == InitLauncher /\ [][NextLauncher]_vars

\* ------------------------------------------------- book normalization
\* name.strip().lower()
StripLower(written) == written.letters

\* a normalization that keeps the name as it is written in lower case
NormWrittenNameKept(written) == StripLower(written)

\* _norm_gospel_name(name) for a name as it is written
NormWrittenName(written) == NormGospelName(StripLower(written))

\* the book names tried: every spelling _GOSPEL_RE knows, a book it does
\* not know, a book behind another word, and the empty name
BookNames ==
    { "marc", "mark", "luke", "luc", "matt", "matthew", "matthieu", "john",
      "jean", "acts", "saint luke", "" }

\* _parse_gospel_ref(text) for the text "<name> <chap>": the regex ignores
\* case and finds the last word of the name when that is a book it knows
ParseWritten(written, chap) ==
    ParseGospelRef(StrTok(BookAtEnd(StripLower(written)), chap))

\* the library file that carries the name: "<Name> <chap>.mp3" in a folder
\* "Bible" (layout stem) or "<chap>.mp3" in the folder "<Name>" (layout
\* parent)
FileCarrying(written, chap, layout) ==
    IF layout = "stem"
    THEN GospelEntry("Bible/name chap.mp3", "bible", 1, TRUE,
                     StrTok(BookAtEnd(StripLower(written)), chap), None,
                     Probed(20))
    ELSE GospelEntry("Name/chap.mp3", StripLower(written), 1, TRUE,
                     StrTok("", None), chap, Probed(20))

\* _norm_gospel_name and its users are applied to a name and a chapter
InitNorm ==
    /\ \E letters \in BookNames, casing \in {"lower", "title", "upper"},
          blanks \in {0, 1} : nm_name = AsWritten(letters, casing, blanks)
    /\ nm_chap \in {None, 0, 4, 12}
    /\ nm_layout \in {"stem", "parent"}
    /\ nm_once = ""
    /\ nm_twice = ""
    /\ nm_ref = [name |-> "", chapter |-> None]
    /\ nm_record = <<>>
    /\ nm_pc = "call"
    /\ max_head_items = None
    /\ ThumbNotCalled
    /\ LauncherNotStarted
    /\ AudioNotPlaced
    /\ WebNotServed
    /\ SelectionNotCalled
    /\ ChaptersNotCalled
    /\ CollectNotCalled
    /\ PlaylistNotCalled

\* _norm_gospel_name(name)
NormOnce ==
    /\ nm_pc = "call"
    /\ nm_once' = NormWrittenName(nm_name)
    /\ nm_pc' = "once"
    /\ UNCHANGED << nm_name, nm_chap, nm_layout, nm_twice, nm_ref, nm_record,
                    notNm >>

\* _norm_gospel_name applied to its own result
NormTwice ==
    /\ nm_pc = "once"
    /\ nm_twice' = NormWrittenName(AsWritten(nm_once, "lower", 0))
    /\ nm_pc' = "twice"
    /\ UNCHANGED << nm_name, nm_chap, nm_layout, nm_once, nm_ref, nm_record,
                    notNm >>

\* _parse_gospel_ref on the preference token "<name> <chap>"
NormToken ==
    /\ nm_pc = "twice"
    /\ nm_ref' = ParseWritten(nm_name, nm_chap)
    /\ nm_pc' = "token"
    /\ UNCHANGED << nm_name, nm_chap, nm_layout, nm_once, nm_twice, nm_record,
                    notNm >>

\* the iteration of collect_gospels over the file that carries the name
NormCatalog ==
    /\ nm_pc = "token"
    /\ LET mp3 == FileCarrying(nm_name, nm_chap, nm_layout)
           ref == GospelRefOf(mp3)
       IN nm_record' = IF RefRecognized(ref)
                       THEN << GospelRecord(mp3, ref, 20) >> ELSE <<>>
    /\ nm_pc' = "done"
    /\ UNCHANGED << nm_name, nm_chap, nm_layout, nm_once, nm_twice, nm_ref,
                    notNm >>

NextNorm ==
    \/ NormOnce
    \/ NormTwice
    \/ NormToken
    \/ NormCatalog

SpecNorm == InitNorm /\ [][NextNorm]_vars

\* ------------------------------------------ the web UI's request threads
\* the most sync workers followed at one time
MaxWorkers == 2

\* the number of clips in the selection of an image
ClipsPerExport == 2

\* an image file: its name, the rank of its lower-cased name in sorted
\* order, and the first run of digits of its stem (None when it has none)
ImageFile(name, rank, digits) == [name |-> name, rank |-> rank, digits |-> digits]

\* the image folders considered: two numbered images, one number under two
\* extensions, and an image numbered 0 beside one without a number
ImageFolders ==
    { { ImageFile("im01.png", 2, 1), ImageFile("im02.png", 3, 2) },
      { ImageFile("im01.jpg", 1, 1), ImageFile("im01.png", 2, 1) },
      { ImageFile("cover.png", 0, None), ImageFile("im00.png", 1, 0) } }

\* _idx_key(path): the first number of the stem, 10**9 when it has none
IdxKey(img) == IF img.digits = None THEN 1000000000 ELSE img.digits

\* (_idx_key(a), a.name.lower()) <= (_idx_key(b), b.name.lower())
ImageBefore(a, b) ==
    \/ IdxKey(a) < IdxKey(b)
    \/ IdxKey(a) = IdxKey(b) /\ a.rank <= b.rank

RECURSIVE ListImages(_)
\* list_images(): the images sorted by (_idx_key, lower-cased name)
ListImages(folder) ==
    IF folder = {} THEN <<>>
    ELSE LET first == CHOOSE a \in folder : \A b \in folder : ImageBefore(a, b)
         IN << first >> \o ListImages(folder \ {first})

\* extract_index_from_name(name): the first number of the stem, or None
ExtractIndexFromName(img) == img.digits

\* idx_num = extract_index_from_name(img.name) or 0
IdxNum(img) ==
    IF ExtractIndexFromName(img) = None \/ ExtractIndexFromName(img) = 0
    THEN 0 ELSE ExtractIndexFromName(img)

\* the playlist index of the image at position i of state["ordered"]
IndexOf(i) == IdxNum(ordered[i])

\* the file copy_and_rename writes for clip pos of the selection of image i
ExportedClip(pos, i) == [pos |-> pos, of |-> i]

\* all_tracks_ready(): there are images, and each has a non-empty
\* chosen.txt and a trackNN that exists and holds an mp3 file
AllTracksReadyOnDisk ==
    /\ ordered # <<>>
    /\ \A i \in 1..Len(ordered) :
          /\ i \in chosen_txt
          /\ track_dirs[IndexOf(i)].exists
          /\ track_dirs[IndexOf(i)].files # {}

\* the export of image i is on disk: every selected clip is in its trackNN
\* and its chaptersNN.txt is the one written for it
ExportOnDisk(i, dirs, chapters) ==
    /\ dirs[IndexOf(i)].exists
    /\ \A pos \in 1..ClipsPerExport :
          ExportedClip(pos, i) \in dirs[IndexOf(i)].files
    /\ chapters[IndexOf(i)] = i

\* the images whose export stands after a step of a request for image i that
\* leaves the disk as (dirs, chapters): the export of i counts once it is on
\* disk, any other one is kept
Standing(i, dirs, chapters) ==
    IF ExportOnDisk(i, dirs, chapters) THEN exported \cup {i}
    ELSE exported \ {i}

\* main() of run_all has built the app over a fresh state (reset_on_start),
\* started the server thread and entered its polling loop
InitWeb ==
    /\ ordered \in { ListImages(folder) : folder \in ImageFolders }
    /\ requests = [th \in RequestThreads |-> NoRequest]
    /\ chosen_txt = {}
    /\ track_dirs = [n \in PlaylistIndices |-> NoTrackFolder]
    /\ chapters_files = [n \in PlaylistIndices |-> None]
    /\ workers = 0
    /\ exported = {}
    /\ auto_trigger_resolve \in BOOLEAN
    /\ resolve_script_exists = TRUE
    /\ SyncIdle
    /\ ra_pc = "poll"
    /\ max_head_items = None
    /\ SelectionNotCalled
    /\ ChaptersNotCalled
    /\ CollectNotCalled
    /\ PlaylistNotCalled
    /\ ThumbNotCalled
    /\ NormNotCalled
    /\ AudioNotPlaced

\* the server thread, a daemon, lives as long as main() has not returned
WebServing == ra_pc \in {"poll", "ready", "interrupted", "sync"}

\* what the request threads leave alone of the launcher's state
syRest == << syInputs, chosen, posts, worker_pc, resolve_note, web_syncs,
             main_syncs, syncs_when_ready >>

\* everything outside the web UI and the launcher
notWbSy == << selVars, chVars, colVars, plVars, thVars, nmVars, auVars >>
notAu == << selVars, chVars, colVars, plVars, thVars, syVars, nmVars,
            wbVars >>

\* POST /choose or /rerun for image i on thread th: _process_titles writes
\* chosen.txt, then works out the references and the selection
ProcessTitlesStart(th, i) ==
    /\ WebServing
    /\ requests[th].pc = "idle"
    /\ i \in 1..Len(ordered)
    /\ chosen_txt' = chosen_txt \cup {i}
    /\ requests' = [requests EXCEPT ![th] = [pc |-> "selected", i |-> i, copied |-> 0]]
    /\ UNCHANGED << ordered, track_dirs, chapters_files, workers, exported,
                    notWb >>

\* audio_engine.clean_track_dir(track_dir): rmtree, then mkdir
ProcessTitlesClean(th) ==
    /\ WebServing
    /\ requests[th].pc = "selected"
    /\ \E i \in {requests[th].i} :
          /\ track_dirs' = [track_dirs EXCEPT
                               ![IndexOf(i)] = [exists |-> TRUE, files |-> {}]]
          /\ exported' = Standing(i, track_dirs', chapters_files)
    /\ requests' = [requests EXCEPT ![th].pc = "copying"]
    /\ UNCHANGED << ordered, chosen_txt, chapters_files, workers, notWb >>

\* one shutil.copy2 of copy_and_rename
ProcessTitlesCopy(th) ==
    /\ WebServing
    /\ requests[th].pc = "copying"
    /\ requests[th].copied < ClipsPerExport
    /\ \E i \in {requests[th].i} :
          /\ track_dirs' = [track_dirs EXCEPT
                               ![IndexOf(i)] =
                                   [exists |-> TRUE,
                                    files |-> @.files \cup
                                        {ExportedClip(requests[th].copied + 1, i)}]]
          /\ exported' = Standing(i, track_dirs', chapters_files)
    /\ requests' = [requests EXCEPT ![th].copied = @ + 1]
    /\ UNCHANGED << ordered, chosen_txt, chapters_files, workers, notWb >>

\* write_chapters(chapters_path, ...), then the end of _handle_titles_for_idx:
\* a redirect to the next image, or _schedule_resolve_all() after the last
ProcessTitlesChapters(th) ==
    /\ WebServing
    /\ requests[th].pc = "copying"
    /\ requests[th].copied = ClipsPerExport
    /\ \E i \in {requests[th].i} :
          /\ chapters_files' = [chapters_files EXCEPT ![IndexOf(i)] = i]
          /\ exported' = Standing(i, track_dirs, chapters_files')
          /\ requests' = IF i = Len(ordered)
                         THEN [requests EXCEPT ![th].pc = "trigger"]
                         ELSE [requests EXCEPT ![th] = NoRequest]
    /\ UNCHANGED << ordered, chosen_txt, track_dirs, workers, notWb >>

\* _trigger_resolve() up to trigger_event.is_set(): "disabled", "missing"
\* and "busy" end the request
TriggerResolveTest(th) ==
    /\ WebServing
    /\ requests[th].pc = "trigger"
    /\ requests' = IF TriggerResolve = "started"
                   THEN [requests EXCEPT ![th].pc = "set"]
                   ELSE [requests EXCEPT ![th] = NoRequest]
    /\ UNCHANGED << ordered, chosen_txt, track_dirs, chapters_files, workers,
                    exported, notWb >>

\* trigger_event.set(); threading.Thread(target=_worker).start(); "started"
TriggerResolveStart(th) ==
    /\ WebServing
    /\ requests[th].pc = "set"
    /\ workers < MaxWorkers
    /\ trigger_event' = TRUE
    /\ workers' = workers + 1
    /\ requests' = [requests EXCEPT ![th] = NoRequest]
    /\ UNCHANGED << ordered, chosen_txt, track_dirs, chapters_files, exported,
                    syRest, ra_pc, notWbSy >>

\* a worker ends, normally or by exception: finally: trigger_event.clear()
WebWorkerEnd ==
    /\ workers > 0
    /\ workers' = workers - 1
    /\ trigger_event' = FALSE
    /\ UNCHANGED << ordered, requests, chosen_txt, track_dirs, chapters_files,
                    exported, syRest, ra_pc, notWbSy >>

\* time.sleep(5); if all_tracks_ready(): break
PollReady ==
    /\ ra_pc = "poll"
    /\ AllTracksReadyOnDisk
    /\ ra_pc' = "ready"
    /\ UNCHANGED << wbVars, syRest, trigger_event, notWbSy >>

\* except KeyboardInterrupt: the loop is left
PollInterrupt ==
    /\ ra_pc = "poll"
    /\ ra_pc' = "interrupted"
    /\ UNCHANGED << wbVars, syRest, trigger_event, notWbSy >>

\* sync_timelines(settings, only_indices=None) is entered in the main thread
MainSyncStart ==
    /\ ra_pc \in {"ready", "interrupted"}
    /\ ra_pc' = "sync"
    /\ UNCHANGED << wbVars, syRest, trigger_event, notWbSy >>

\* sync_timelines returns and main() ends
MainSyncDone ==
    /\ ra_pc = "sync"
    /\ ra_pc' = "done"
    /\ UNCHANGED << wbVars, syRest, trigger_event, notWbSy >>

NextWeb ==
    \/ \E th \in RequestThreads : \E i \in 1..Len(ordered) : ProcessTitlesStart(th, i)
    \/ \E th \in RequestThreads : ProcessTitlesClean(th)
    \/ \E th \in RequestThreads : ProcessTitlesCopy(th)
    \/ \E th \in RequestThreads : ProcessTitlesChapters(th)
    \/ \E th \in RequestThreads : TriggerResolveTest(th)
    \/ \E th \in RequestThreads : TriggerResolveStart(th)
    \/ WebWorkerEnd
    \/ PollReady
    \/ PollInterrupt
    \/ MainSyncStart
    \/ MainSyncDone

SpecWeb == InitWeb /\ [][NextWeb]_vars

\* ------------------------------------ sync_timelines: audio placement
\* the longest final duration, in frames
MaxFrames == 4

\* the longest audio clip, in frames
MaxClipFrames == 3

\* the most audio items of a track folder
MaxAudioItems == 3

\* the longest trim_first_audio_seconds, in frames
MaxTrimFrames == 3

\* put = min(clip_frames, remaining) without the limit of remaining
PutWholeClip(clip_frames, left) == clip_frames

\* put = min(clip_frames, remaining)
Put(clip_frames, left) == IF clip_frames < left THEN clip_frames ELSE left

\* one entry of audio_instr
AudioInstr(start_in_clip, put, record) ==
    [startFrame |-> start_in_clip,
     endFrame |-> start_in_clip + (IF put - 1 > 0 THEN put - 1 ELSE 0),
     recordFrame |-> record]

\* trim_remaining = max(0, int(round(trim_first_audio_seconds * fps)))
TrimFrames(setting) == IF setting > 0 THEN setting ELSE 0

\* sync_timelines has placed the video and imported the audio items of a
\* track folder; the final duration is a timecode of non-negative fields
InitAudio ==
    /\ frames_final \in 0..MaxFrames
    /\ audio_frames \in SeqsUpTo(0..MaxClipFrames, MaxAudioItems)
    /\ a_rec = 0
    /\ remaining_frames = frames_final
    /\ trim_remaining \in { TrimFrames(setting) : setting \in (0 - 1)..MaxTrimFrames }
    /\ first_audio_seen = FALSE
    /\ audio_instr = <<>>
    /\ au_i = 1
    /\ au_pc = "loop"
    /\ max_head_items = None
    /\ SelectionNotCalled
    /\ ChaptersNotCalled
    /\ CollectNotCalled
    /\ PlaylistNotCalled
    /\ ThumbNotCalled
    /\ LauncherNotStarted
    /\ NormNotCalled
    /\ WebNotServed

\* the loop is at an audio item
AtAudioItem == au_pc = "loop" /\ au_i <= Len(audio_frames)

\* if remaining <= 0 or clip_frames <= 0: continue
AudioSkip ==
    /\ AtAudioItem
    /\ remaining_frames <= 0 \/ audio_frames[au_i] <= 0
    /\ au_i' = au_i + 1
    /\ UNCHANGED << frames_final, audio_frames, a_rec, remaining_frames,
                    trim_remaining, first_audio_seen, audio_instr, au_pc,
                    notAu >>

\* the first audio seen is not longer than the trim: the trim takes it whole
\* (trim_remaining -= clip_frames; continue)
AudioTrimmedAway ==
    /\ AtAudioItem
    /\ remaining_frames > 0 /\ audio_frames[au_i] > 0
    /\ ~ first_audio_seen
    /\ trim_remaining > 0
    /\ trim_remaining >= audio_frames[au_i]
    /\ first_audio_seen' = TRUE
    /\ trim_remaining' = trim_remaining - audio_frames[au_i]
    /\ au_i' = au_i + 1
    /\ UNCHANGED << frames_final, audio_frames, a_rec, remaining_frames,
                    audio_instr, au_pc, notAu >>

\* the item is placed: cut at the front by the trim when it is the first
\* audio seen, at the back by what remains of the final duration
AudioPlace ==
    /\ AtAudioItem
    /\ remaining_frames > 0 /\ audio_frames[au_i] > 0
    /\ first_audio_seen \/ trim_remaining = 0
           \/ trim_remaining < audio_frames[au_i]
    /\ \E trim \in { IF first_audio_seen THEN 0 ELSE trim_remaining } :
       \E put \in { Put(audio_frames[au_i] - trim, remaining_frames) } :
          /\ audio_instr' = Append(audio_instr, AudioInstr(trim, put, a_rec))
          /\ a_rec' = a_rec + put
          /\ remaining_frames' = remaining_frames - put
    /\ first_audio_seen' = TRUE
    /\ trim_remaining' = IF first_audio_seen THEN trim_remaining ELSE 0
    /\ au_i' = au_i + 1
    /\ UNCHANGED << frames_final, audio_frames, au_pc, notAu >>

\* the for loop is over
AudioLoopEnd ==
    /\ au_pc = "loop"
    /\ au_i > Len(audio_frames)
    /\ au_pc' = "placed"
    /\ UNCHANGED << frames_final, audio_frames, a_rec, remaining_frames,
                    trim_remaining, first_audio_seen, audio_instr, au_i,
                    notAu >>

NextAudio ==
    \/ AudioSkip
    \/ AudioTrimmedAway
    \/ AudioPlace
    \/ AudioLoopEnd

SpecAudio == InitAudio /\ [][NextAudio]_vars

\* ================================================================ claims
Returned == pc = "done"

DistinctPaths(clips) == Cardinality(Paths(clips)) = Len(clips)

\* the paths of the first k items
PathsUpTo(clips, k) == { clips[i].path : i \in 1..k }

\* C1: for a pool of strictly positive total duration and a positive target,
\* the total_seconds that build_selection returns is >= target_seconds
C1_DurationSufficiency ==
    (Returned /\ SumDur(pool_items) > 0 /\ target_seconds > 0)
        => total >= target_seconds

\* a returned selection that needed a recycle of a positive pool
C1_Witness ==
    /\ Returned /\ SumDur(pool_items) > 0 /\ target_seconds > 0
    /\ Len(selection) > Len(pool_items)
    /\ total >= target_seconds

\* C2: when the head is not empty, the returned selection starts with a head
\* clip and every head clip occurs before every clip that is not a head clip
C2_PreferenceOrdering ==
    (Returned /\ preferred_head # <<>> /\ head # <<>>)
        => /\ selection # <<>>
           /\ selection[1] = head[1]
           /\ \A h \in Paths(head) : \A j \in 1..Len(selection) :
                  selection[j].path \notin Paths(head)
                      => h \in PathsUpTo(selection, j - 1)

\* a returned selection with two head clips followed by fill
C2_Witness ==
    /\ Returned /\ Len(head) = 2
    /\ \E j \in 1..Len(selection) : selection[j].path \notin Paths(head)

\* C3: build_selection returns for every pool of strictly positive total
\* duration, however many exhaustion cycles the target needs
C3_Termination == (pc = "start" /\ SumDur(pool_items) > 0) ~> Returned

\* a return after at least two exhaustion cycles
C3_Witness ==
    /\ Returned /\ SumDur(pool_items) > 0
    /\ Len(selection) > 2 * Len(pool_items) + Len(head)

\* C4: when the pool (paths pairwise distinct) lasts at least the target,
\* the returned selection holds no clip path twice
C4_NoDuplication ==
    (Returned /\ DistinctPaths(pool_items) /\ SumDur(pool_items) >= target_seconds)
        => DistinctPaths(selection)

\* such a selection with a head clip and fill
C4_Witness ==
    /\ Returned /\ DistinctPaths(pool_items)
    /\ SumDur(pool_items) >= target_seconds
    /\ head # <<>> /\ Len(selection) >= 3

\* the first position of the selection whose path occurred before it
\* (Len + 1 when there is none)
FirstRepeat(sel) ==
    LET reps == { j \in 1..Len(sel) : sel[j].path \in PathsUpTo(sel, j - 1) }
    IN IF reps = {} THEN Len(sel) + 1
       ELSE CHOOSE j \in reps : \A k \in reps : j <= k

\* a path comes back only once the pass before it has used the whole pool:
\* up to the first repetition every pool clip was used, and from there on
\* the selection is made of passes of Len(pool) clips without repetition
ReappearOnlyAfterFullPass(sel, pool) ==
    LET k == FirstRepeat(sel)
        n == Len(pool)
    IN /\ k <= Len(sel) => Paths(pool) \subseteq PathsUpTo(sel, k - 1)
       /\ \A i, j \in k..Len(sel) :
            (i < j /\ sel[i].path = sel[j].path)
                => (i - k) \div n # (j - k) \div n

RecycledLonger == Len(selection) > Len(pool_items)

\* C5 as stated: when the pool lasts less than the target, the selection is
\* longer than the pool and paths reappear only after a full pass, for any
\* preferred_head and preferred_candidates
C5_AsStated ==
    (Returned /\ SumDur(pool_items) < target_seconds)
        => /\ RecycledLonger
           /\ ReappearOnlyAfterFullPass(selection, pool_items)

\* C5: when the pool has pairwise distinct paths, every head clip is a pool
\* clip and the pool lasts less than the target, the selection is longer
\* than the pool and paths reappear only after a full pass
C5_Recycling ==
    (Returned /\ SumDur(pool_items) < target_seconds
        /\ DistinctPaths(pool_items) /\ Paths(head) \subseteq Paths(pool_items))
        => /\ RecycledLonger
           /\ ReappearOnlyAfterFullPass(selection, pool_items)

\* a recycled selection of a two-clip pool with a head clip
C5_Witness ==
    /\ Returned /\ SumDur(pool_items) < target_seconds
    /\ DistinctPaths(pool_items) /\ Paths(head) \subseteq Paths(pool_items)
    /\ head # <<>> /\ Len(pool_items) = 2 /\ Len(selection) >= 4

SecondReturned == call = 2 /\ pc = "done"

SameResult == selection = first_result.selection /\ total = first_result.total

\* C6 as stated: two calls with identical arguments and seed return the
\* same selection and the same total
C6_AsStated == SecondReturned => SameResult

\* C6: two calls with identical arguments and the same integer seed return
\* the same selection and the same total
C6_Determinism == (SecondReturned /\ seed # None) => SameResult

\* a second call with an integer seed that shuffled a head and a fill
C6_Witness ==
    /\ SecondReturned /\ seed # None
    /\ Len(preferred_head) = 2 /\ Len(selection) >= 3

\* C7: the returned total is the sum of the durations of the returned clips,
\* and for a positive target every proper prefix of the selection is short
\* of the target
C7_StopAtFirstReach ==
    Returned
        => /\ total = SumDur(selection)
           /\ target_seconds > 0 =>
                \A k \in 0..(Len(selection) - 1) :
                    SumDur(SubSeq(selection, 1, k)) < target_seconds

\* a selection whose last clip overshoots the target
C7_Witness ==
    /\ Returned /\ target_seconds > 0
    /\ Len(selection) >= 2 /\ total > target_seconds

ChaptersWritten == cpc = "done"

\* the offset the caller asked for, None counting as 0
OffsetAsked == IF offset_arg = <<>> THEN 0 ELSE offset_arg[1]

\* the contribution of track k to the clock
ExpectedEffective(k) ==
    IF k = 1
    THEN Max(0, tracks_with_meta[1].dur - Max(0, OffsetAsked))
    ELSE tracks_with_meta[k].dur

RECURSIVE ExpectedClock(_)
\* the running sum of the contributions of tracks 1..k, in ticks
ExpectedClock(k) == IF k = 0 THEN 0 ELSE ExpectedClock(k - 1) + ExpectedEffective(k)

TwoDigits(n) == ToString(n \div 10) \o ToString(n % 10)

\* H:MM:SS for a number of whole seconds
Stamp(n) ==
    ToString(n \div 3600) \o ":" \o TwoDigits((n \div 60) % 60)
        \o ":" \o TwoDigits(n % 60)

\* the whole seconds a stored timestamp stands for
TsSeconds(ts) == ts.days * 86400 + ts.hh * 3600 + ts.mm * 60 + ts.ss

C9_ChapterMonotonicity ==
    /\ \A k \in 1..(Len(lines) - 1) : TsSeconds(lines[k].ts) <= TsSeconds(lines[k + 1].ts)
    /\ lines # <<>> => lines[1].ts = [days |-> 0, hh |-> 0, mm |-> 0, ss |-> 0]
    /\ (ChaptersWritten /\ tracks_with_meta # <<>>)
            => chapters_file[1] = "0:00:00 - " \o tracks_with_meta[1].label

\* a written file of three lines whose first track is shorter than a second
C9_Witness ==
    /\ ChaptersWritten /\ Len(lines) = 3
    /\ tracks_with_meta[1].dur = 7
    /\ TsSeconds(lines[2].ts) = 0 /\ TsSeconds(lines[3].ts) > 0

\* C10: an offset above the first track's duration makes the first track
\* count for exactly 0 and every later track for its full duration; an
\* offset that is negative or None changes nothing
C10_OffsetClamp ==
    (cpc \in {"loop", "done"} /\ idx >= 1)
        => /\ (offset_arg # <<>> /\ offset_arg[1] > tracks_with_meta[1].dur)
                => t = SumDur(SubSeq(tracks_with_meta, 2, idx))
           /\ (offset_arg = <<>> \/ offset_arg[1] <= 0)
                => t = SumDur(SubSeq(tracks_with_meta, 1, idx))

\* two tracks written with an offset longer than the first of them
C10_Witness ==
    /\ ChaptersWritten /\ Len(tracks_with_meta) >= 2
    /\ offset_arg # <<>> /\ offset_arg[1] > tracks_with_meta[1].dur
    /\ t = SumDur(Tail(tracks_with_meta)) /\ t > 0

\* the call has built its head (every step after Start)
HeadBuilt == pc \notin {"idle", "start"}

\* C16 as stated: called with an empty pool and a positive target,
\* build_selection never returns, whatever preferred_head and
\* preferred_candidates are
C16_AsStated == (pool_items = <<>> /\ target_seconds > 0) => ~ Returned

\* C16: called with an empty pool and a positive target, build_selection
\* never returns when the clips resolved into the head last less than the
\* target: the selection stays the head and the call stays in the exhaustion
\* cycles once the first pass is over
C16_EmptyPoolNeverReturns ==
    (pool_items = <<>> /\ target_seconds > 0 /\ HeadBuilt
        /\ SumDur(head) < target_seconds)
        => /\ ~ Returned
           /\ pc \in {"while", "cycle"} => (selection = head /\ remaining = <<>>)

\* an empty pool whose head clip, resolved from preferred_candidates, is
\* short of the target: the call is inside an exhaustion cycle with nothing
\* to walk
C16_Witness ==
    /\ pool_items = <<>> /\ target_seconds > 0
    /\ head # <<>> /\ SumDur(head) < target_seconds
    /\ pc = "cycle" /\ selection = head /\ remaining = <<>>

Min(a, b) == IF a <= b THEN a ELSE b

\* the number of positions of seq that hold x
Count(seq, x) == Cardinality({ i \in 1..Len(seq) : seq[i] = x })

\* a holds the elements of b, each as often, in some order
Permutation(a, b) ==
    /\ Len(a) = Len(b)
    /\ \A i \in 1..Len(b) : Count(a, b[i]) = Count(b, b[i])

\* the candidates of the call in progress
CandidatesOfCall == EffectiveCandidates(preferred_candidates, pool_items)

\* clip c is a record the token asks for: psalm number n for an integer
\* token, (normalized book, chapter) for a string token
Asks(tok, c) ==
    IF tok.kind = "int"
    THEN c.type = "psalm" /\ c.psalm_num = tok.num
    ELSE /\ c.type = "gospel"
         /\ tok.chap # None
         /\ c.gospel_name = NormGospelName(tok.book)
         /\ c.gospel_chapter = tok.chap

\* the token has a record among the candidates
HasRecord(tok) ==
    \E k \in 1..Len(CandidatesOfCall) : Asks(tok, CandidatesOfCall[k])

\* the order random.shuffle gives preferred_head under an integer seed
ShuffledTokens == Shuffle(preferred_head, RandomSeed(seed, 0)).seq

\* C20: with max_head_items a positive integer m the token list that is
\* resolved is the first m tokens of the shuffled list, the head holds at
\* most m clips and every head clip is the record of one of those m tokens
\* (a token beyond position m is never placed, even when earlier tokens
\* resolve to nothing); with max_head_items unset the whole shuffled list is
\* resolved
C20_HeadTruncation ==
    HeadBuilt =>
        /\ (max_head_items # None /\ max_head_items > 0) =>
              /\ Len(head_candidates) = Min(max_head_items, Len(preferred_head))
              /\ seed # None =>
                    head_candidates = SubSeq(ShuffledTokens, 1, Len(head_candidates))
              /\ Len(head) <= max_head_items
        /\ max_head_items = None =>
              /\ Permutation(head_candidates, preferred_head)
              /\ seed # None => head_candidates = ShuffledTokens
        /\ \A i \in 1..Len(head) :
              \E k \in 1..Len(head_candidates) : Asks(head_candidates[k], head[i])

\* m = 1 and two tokens: the token kept has no record and the head is empty,
\* although the token cut off has a record among the candidates
C20_Witness ==
    /\ HeadBuilt /\ max_head_items = 1 /\ Len(preferred_head) = 2
    /\ Len(head_candidates) = 1 /\ ~ HasRecord(head_candidates[1])
    /\ head = <<>>
    /\ \E i \in 1..2 : HasRecord(preferred_head[i])

\* the first candidate the token asks for
FirstRecord(tok) ==
    CandidatesOfCall[CHOOSE k \in 1..Len(CandidatesOfCall) :
                        /\ Asks(tok, CandidatesOfCall[k])
                        /\ \A j \in 1..(k - 1) : ~ Asks(tok, CandidatesOfCall[j])]

\* the positions of head_candidates whose token has a record at that path
TokensFor(path) ==
    { k \in 1..Len(head_candidates) :
        HasRecord(head_candidates[k]) /\ FirstRecord(head_candidates[k]).path = path }

\* the earliest of them
FirstTokenFor(path) == CHOOSE k \in TokensFor(path) : \A j \in TokensFor(path) : k <= j

\* C19: the head holds, for every token of head_candidates that has a record
\* among preferred_candidates (psalm number for an integer token, normalized
\* book and chapter for a string token), the first such record in candidate
\* order, once per path and in token order; tokens without a record,
\* unparseable tokens and tokens whose clip is already placed add nothing
C19_HeadResolution ==
    HeadBuilt =>
        /\ DistinctPaths(head)
        /\ \A i \in 1..Len(head) :
              /\ TokensFor(head[i].path) # {}
              /\ head[i] = FirstRecord(head_candidates[FirstTokenFor(head[i].path)])
        /\ \A k \in 1..Len(head_candidates) :
              HasRecord(head_candidates[k])
                  => FirstRecord(head_candidates[k]).path \in Paths(head)
        /\ \A i, j \in 1..Len(head) :
              i < j => FirstTokenFor(head[i].path) < FirstTokenFor(head[j].path)

\* 'mark 4' and 'marc 4' over candidates with two Mark 4 records: the head
\* is the first of the two records, once
C19_Witness ==
    /\ HeadBuilt /\ max_head_items = None
    /\ Len(head_candidates) = 2
    /\ head_candidates[1].book # head_candidates[2].book
    /\ \A k \in 1..2 : head_candidates[k].kind = "str" /\ HasRecord(head_candidates[k])
    /\ Cardinality({ k \in 1..Len(CandidatesOfCall) :
                        Asks(head_candidates[1], CandidatesOfCall[k]) }) = 2
    /\ Len(head) = 1 /\ head[1] = FirstRecord(head_candidates[1])

\* the folder entry a record was made from
EntryOf(rec) == CHOOSE e \in PsalmEntries \cup GospelEntries : e.name = rec.path

\* ffprobe gave a duration above zero for the entry
Usable(e) == e.probe.ok /\ e.probe.out > 0

\* C14: every record a collector holds has a duration above zero, namely the
\* one ffprobe reported; a file whose probe fails or reports zero or less is
\* left out, and every file of the listing walked so far that is usable (and,
\* for a gospel, a regular file with a recognized reference) has its record
C14_PositiveDurations ==
    /\ \A i \in 1..Len(items) :
          /\ items[i].dur > 0
          /\ Usable(EntryOf(items[i]))
          /\ items[i].dur = EntryOf(items[i]).probe.out
    /\ col_pc \in {"psalms_loop", "psalms_returned"} =>
          \A k \in 1..fi : Usable(files[k]) => files[k].name \in Paths(items)
    /\ col_pc \in {"gospels_loop", "gospels_returned"} =>
          \A k \in 1..fi :
              (Usable(files[k]) /\ files[k].is_file /\ RefRecognized(GospelRefOf(files[k])))
                  => files[k].name \in Paths(items)

\* collect_psalms has returned over a folder with a failed probe, a zero or
\* negative duration, and a usable file listed after the failed one
C14_Witness ==
    /\ col_pc = "psalms_returned"
    /\ \E k \in 1..Len(files) : files[k].probe.ok /\ files[k].probe.out <= 0
    /\ \E k, j \in 1..Len(files) :
          k < j /\ ~ files[k].probe.ok /\ files[j].name \in Paths(items)

\* the rank of a psalm file's name in sorted order
RankOfPath(path) == (CHOOSE e \in PsalmEntries : e.name = path).rank

SortedByFilename(recs) ==
    \A i, j \in 1..Len(recs) : i < j => RankOfPath(recs[i].path) < RankOfPath(recs[j].path)

\* the regular .mp3 files of the psalm folder
PsalmFiles == { e \in trimmed_dir.entries : e.ext = "mp3" /\ e.is_file }

\* C15: collect_psalms ends in one of two ways: it raises its fatal error
\* (folder absent, no .mp3 file in it, or every file skipped for its
\* duration), or it returns a list of psalm records that is not empty and is
\* sorted by filename
C15_PsalmsOrFatal ==
    /\ col_pc = "psalms_returned" =>
          /\ items # <<>>
          /\ SortedByFilename(items)
          /\ \A i \in 1..Len(items) : items[i].type = "psalm"
          /\ \E e \in PsalmFiles : Usable(e)
    /\ col_pc = "failed" =>
          \/ ~ trimmed_dir.exists /\ col_error = "[ERROR] Missing psalm directory"
          \/ trimmed_dir.exists /\ PsalmFiles = {} /\ col_error = "[ERROR] No MP3 found"
          \/ /\ trimmed_dir.exists /\ PsalmFiles # {}
             /\ \A e \in PsalmFiles : ~ Usable(e)
             /\ col_error = "[ERROR] No usable psalms."

\* every one of three listed files was skipped: the fatal error, no list
C15_Witness ==
    /\ col_pc = "failed" /\ col_error = "[ERROR] No usable psalms."
    /\ Len(files) = 3 /\ fi = 3 /\ items = <<>>

RECURSIVE DigitsValue(_)
\* the number a digit string stands for
DigitsValue(digs) ==
    IF digs = <<>> THEN 0
    ELSE 10 * DigitsValue(SubSeq(digs, 1, Len(digs) - 1)) + digs[Len(digs)]

\* the file copy_and_rename wrote for position k holds the clip of position k
CopiedAt(k) == [name |-> out[k].dst, content |-> selection[k].path] \in track_dir.files

\* C11: copy_and_rename gives position k the name <k, zero-padded to one
\* width for the whole selection>_<playlist index>_<source basename>, all
\* names distinct, returns (destination, duration, label) in selection
\* order, and once it has returned the names sort, by natural_key as the
\* Resolve sync sorts them, in selection order
C11_ExportOrder ==
    /\ pl_pc \in {"copy_loop", "copied"} =>
          /\ Len(out) = ci
          /\ \A k \in 1..Len(out) :
                /\ Len(out[k].dst.idx) = Len(out[1].dst.idx)
                /\ Len(out[k].dst.idx) >= 2
                /\ DigitsValue(out[k].dst.idx) = k
                /\ out[k].dst.base = BaseName(selection[k].path)
                /\ out[k].dur = selection[k].dur
                /\ out[k].label = selection[k].label
                /\ CopiedAt(k)
          /\ Cardinality({ out[k].dst : k \in 1..Len(out) }) = Len(out)
    /\ pl_pc = "copied" =>
          /\ Len(out) = Len(selection)
          /\ \A i, j \in 1..Len(out) :
                i < j => LexLess(NaturalKey(out[i].dst), NaturalKey(out[j].dst))

\* a returned export of at least 100 clips in which the first source clip
\* recurs: names 002_... and 100_...
C11_Witness ==
    /\ pl_pc = "copied" /\ Len(selection) >= 100
    /\ selection[1].path = selection[4].path
    /\ out[2].dst.idx = << 0, 0, 2 >> /\ out[100].dst.idx = << 1, 0, 0 >>
    /\ out[1].dst # out[4].dst

\* the files the export of the current selection consists of
RenamedCopies ==
    { [name |-> ExportName(k, Max(2, Len(Digits(Len(selection)))), timeline_idx,
                           BaseName(selection[k].path)),
       content |-> selection[k].path] : k \in 1..Len(selection) }

\* the part of them written by the first n copies
RenamedCopiesUpTo(n) == { f \in RenamedCopies : DigitsValue(f.name.idx) <= n }

\* C12: when build_playlist has returned, trackNN holds exactly one renamed
\* copy per position of the selection and nothing of an earlier export; the
\* folder is empty when the first copy starts, holds the copies made so far
\* during the loop, and chaptersNN.txt keeps its earlier content until every
\* copy is made
C12_CleanSlateExport ==
    /\ pl_pc = "returned" =>
          /\ track_dir.exists
          /\ track_dir.files = RenamedCopies
          /\ Cardinality(track_dir.files) = Len(selection)
          /\ Len(chapters_file) = Len(selection)
    /\ pl_pc = "copy_call" => track_dir.exists /\ track_dir.files = {}
    /\ pl_pc = "copy_loop" => track_dir.files = RenamedCopiesUpTo(ci)
    /\ chapters_file # earlier_chapters =>
          /\ pl_pc \in {"chapters", "returned"}
          /\ cpc = "done"
          /\ track_dir.files = RenamedCopies

\* a returned build_playlist whose trackNN held three files of an earlier
\* export, one under a name the new export uses, and holds three copies now,
\* two of them of the same clip
C12_Witness ==
    /\ pl_pc = "returned"
    /\ Cardinality(earlier_export.files) = 3
    /\ \E f \in earlier_export.files : \E g \in track_dir.files :
          f.name = g.name /\ f.content # g.content
    /\ Len(selection) = 3 /\ selection[1].path = selection[2].path
    /\ earlier_chapters # <<>> /\ chapters_file # earlier_chapters

\* C13: when collect_psalms fails in build_playlist (folder absent, no audio
\* file, no usable psalm) the error leaves build_playlist at once: trackNN
\* and chaptersNN.txt are as the earlier export left them, build_selection
\* was not called and nothing was copied
C13_AbortBeforeExport ==
    /\ col_pc = "failed" => pl_pc \in {"collect_psalms", "aborted"}
    /\ pl_pc = "aborted" => col_pc = "failed"
    /\ (col_pc = "failed" \/ pl_pc = "aborted") =>
          /\ track_dir = earlier_export
          /\ chapters_file = earlier_chapters
          /\ pc = "idle" /\ selection = <<>>
          /\ out = <<>> /\ cpc = "idle"
    /\ pl_pc \in {"select_call", "collect_gospels", "select", "copy_call",
                  "copy_loop", "copied", "chapters", "returned"}
          => psalms # <<>>

\* build_playlist aborted on a folder without usable psalm while trackNN and
\* chaptersNN.txt hold an earlier export
C13_Witness ==
    /\ pl_pc = "aborted" /\ col_error = "[ERROR] No usable psalms."
    /\ track_dir.files # {} /\ track_dir = earlier_export
    /\ chapters_file = << "0:00:00 - old" >>

\* ensure_yt_thumbnail has returned a path
ThumbReturned == th_pc = "returned" /\ thumb.path # "None"

\* C18: whenever ensure_yt_thumbnail returns a thumbnail path for an
\* existing image, the file at that path is no larger than
\* yt_thumb_max_bytes, on every branch
C18_AsStated == ThumbReturned => thumb.new_bytes <= YtThumbMaxBytes

\* a file larger than yt_thumb_max_bytes comes from the two fallbacks only:
\* the copy made when Image.open raises, and the quality-40 JPEG written
\* when no quality of the search fits target_bytes
C18_OnlyFallbacksExceed ==
    (ThumbReturned /\ thumb.new_bytes > YtThumbMaxBytes)
        => \/ ~img_readable /\ thumb = CopyAsIs
           \/ /\ img_readable
              /\ SaveJpeg(50) > target_bytes
              /\ thumb = Written(".jpg", SaveJpeg(40))

\* the quality-40 fallback has written a JPEG larger than yt_thumb_max_bytes
C18_Quality40TooLarge ==
    /\ ThumbReturned
    /\ img_readable
    /\ thumb.path = "yt_thumbs/im01_yt.jpg"
    /\ thumb.new_bytes = SaveJpeg(40)
    /\ thumb.new_bytes > YtThumbMaxBytes

\* the exception fallback has copied an image larger than yt_thumb_max_bytes
C18_FallbackCopyTooLarge ==
    /\ ThumbReturned
    /\ ~img_readable
    /\ thumb = CopyAsIs
    /\ thumb.new_bytes > YtThumbMaxBytes

\* the sync of the web UI's worker and the launcher's own are both running
SyncsOverlap == worker_pc = "waiting" /\ ra_pc = "sync"

\* C17: in the run_all launcher, once every image has chosen titles and a
\* track directory with mp3 files, the Resolve sync is run exactly once: no
\* second sync is started for the same pass, and none runs concurrently
\* with the launcher's
C17_AsStated == syncs_when_ready <= 1 /\ ~SyncsOverlap

\* what the launcher does guarantee: its own sync_timelines call is made at
\* most once, the web UI never has two workers waiting on a sync, and with
\* auto_trigger_resolve off or update_resolve.py missing the launcher's sync
\* is the only one
C17_OnlyWithTriggerOff ==
    /\ main_syncs <= 1
    /\ (worker_pc # "idle" /\ Serving) => trigger_event
    /\ (~auto_trigger_resolve \/ ~resolve_script_exists)
           => (web_syncs = 0 /\ C17_AsStated)

\* every image was ready, the web UI's worker started update_resolve.py,
\* and the launcher entered sync_timelines while that subprocess still ran
C17_TwoSyncsAtOnce ==
    /\ auto_trigger_resolve
    /\ AllTracksReady(chosen)
    /\ resolve_note = "started"
    /\ SyncsOverlap
    /\ syncs_when_ready = 2

\* the clips of a list, as a set
Clips(seq) == { seq[i] : i \in 1..Len(seq) }

\* the head has just been built: nothing is walked yet
HeadJustBuilt == pc = "first_pass" /\ selection = <<>>

\* the head the same call builds when its generator starts from state s
HeadUnder(s) ==
    BuildHead(preferred_head, CandidatesOfCall, max_head_items, s).head

\* the generator states the integer seeds and the entropy give
GeneratorStates == { RandomSeed(sd, e) : sd \in {None} \cup 0..MaxSeed, e \in Entropy }

\* max_head_items cuts the shuffled token list of this call
HeadIsCut ==
    max_head_items # None /\ max_head_items > 0
        /\ max_head_items < Len(preferred_head)

\* C21 as stated: for fixed pool, candidates, preferred_head and settings
\* the set of clips placed in the head is the same for every seed
C21_AsStated ==
    HeadJustBuilt => \A s \in GeneratorStates : Clips(HeadUnder(s)) = Clips(head)

\* C21: when max_head_items does not cut the token list, the set of clips
\* placed in the head is the same for every seed, and so is their number;
\* the seed changes only their order
C21_HeadMembership ==
    (HeadJustBuilt /\ ~ HeadIsCut)
        => \A s \in GeneratorStates :
              /\ Clips(HeadUnder(s)) = Clips(head)
              /\ Len(HeadUnder(s)) = Len(head)

\* a head of two clips that another seed builds in the other order
C21_Witness ==
    /\ HeadJustBuilt /\ ~ HeadIsCut
    /\ Len(head) = 2
    /\ \E s \in GeneratorStates : HeadUnder(s) = << head[2], head[1] >>

\* max_head_items = 1 and two tokens with records: another seed puts the
\* other clip in the head
C21_CutHeadDiffers ==
    /\ HeadJustBuilt /\ max_head_items = 1 /\ Len(preferred_head) = 2
    /\ Len(head) = 1
    /\ \E s \in GeneratorStates : Len(HeadUnder(s)) = 1 /\ HeadUnder(s) # head

\* build_playlist is inside its build_selection call and the head is built
PlaylistHeadBuilt == pl_pc = "select" /\ HeadBuilt

\* some token of preferred_head asks for clip c
Referenced(c) == \E k \in 1..Len(preferred_head) : Asks(preferred_head[k], c)

\* the gospel clips of the pool
PoolGospels == { c \in Clips(pool_items) : c.type = "gospel" }

\* C22: in build_playlist a gospel clip is placed in the head exactly when a
\* preference token references its book and chapter, and otherwise appears
\* only in the shuffled fill
C22_AsStated ==
    PlaylistHeadBuilt
        => \A c \in PoolGospels : (c \in Clips(head)) <=> Referenced(c)

\* what build_playlist does: its candidates are the psalms only, so the head
\* holds psalms only and every gospel clip of the selection is fill that
\* comes after the head, referenced or not
C22_GospelsAlwaysFill ==
    PlaylistHeadBuilt
        => /\ \A i \in 1..Len(head) : head[i].type = "psalm"
           /\ \A j \in 1..Len(selection) :
                 selection[j].type = "gospel" => j > Len(head)

\* the token 'luke 12' is passed, Luke 12 is in the pool, and the call
\* returned with Luke 12 as fill behind a head that does not hold it
C22_ReferencedGospelAsFill ==
    /\ PlaylistHeadBuilt /\ Returned
    /\ \E c \in PoolGospels :
          /\ Referenced(c)
          /\ c \notin Clips(head)
          /\ \E j \in 1..Len(selection) : selection[j] = c /\ j > Len(head)

\* the book a spelling belongs to, under the name the specification gives it
BookOfSpelling(letters) ==
    IF letters \in {"marc", "mark"} THEN "Mark"
    ELSE IF letters \in {"luke", "luc"} THEN "Luke"
    ELSE IF letters \in {"matt", "matthew", "matthieu"} THEN "Matthew"
    ELSE IF letters \in {"john", "jean"} THEN "John"
    ELSE letters

\* the identity _norm_gospel_name gives each book
IdentityOfBook(book) ==
    IF book = "Mark" THEN "marc"
    ELSE IF book = "Luke" THEN "luke"
    ELSE IF book = "Matthew" THEN "matthew"
    ELSE IF book = "John" THEN "john"
    ELSE book

\* the name a label shows for an identity
ShownAs(identity) ==
    IF identity = "marc" THEN "Marc"
    ELSE IF identity = "luke" THEN "Luke"
    ELSE IF identity = "matthew" THEN "Matthew"
    ELSE IF identity = "john" THEN "John"
    ELSE IF identity = "saint luke" THEN "Saint Luke"
    ELSE "?"

\* the name, its normal forms, the token and the catalog file are all done
NormDone == nm_pc = "done"

\* the token and the file carry a book spelling the regex knows
KnownSpelling == BookOfSpelling(nm_name.letters) # nm_name.letters

\* C23 as stated: marc and mark map to Mark, luke and luc to Luke, matt,
\* matthew and matthieu to Matthew, john and jean to John, whatever the
\* case; other names pass through lowercased; normalizing twice changes
\* nothing; tokens and catalog entries get the same book; and a gospel
\* clip's label is the canonical book name followed by its chapter
C23_AsStated ==
    NormDone
        => /\ nm_once = IdentityOfBook(BookOfSpelling(nm_name.letters))
           /\ nm_twice = nm_once
           /\ nm_record # <<>> =>
                 /\ nm_record[1].gospel_name = nm_ref.name
                 /\ nm_record[1].gospel_chapter = nm_ref.chapter
                 /\ nm_record[1].label
                       = BookOfSpelling(nm_name.letters) \o " "
                            \o ToString(nm_record[1].gospel_chapter)

\* C23: the spellings of one book get one identity (marc for Mark, luke,
\* matthew, john), whatever their case and the blanks around them; any
\* other name passes through stripped and lowercased; normalizing twice
\* changes nothing; a token and a file name with a spelling the regex knows
\* get the same book and chapter; and a gospel clip's label is the display
\* name of its identity (Marc, Luke, Matthew, John, else the name in title
\* case) followed by its chapter
C23_BookNormalization ==
    NormDone
        => /\ nm_once = IdentityOfBook(BookOfSpelling(nm_name.letters))
           /\ nm_twice = nm_once
           /\ (nm_record # <<>> /\ KnownSpelling) =>
                 /\ nm_record[1].gospel_name = nm_ref.name
                 /\ nm_record[1].gospel_chapter = nm_ref.chapter
           /\ nm_record # <<>> =>
                 nm_record[1].label
                    = ShownAs(nm_record[1].gospel_name) \o " "
                         \o ToString(nm_record[1].gospel_chapter)

\* ' MARK ' written in capitals with blanks: identity marc, and the file
\* 'MARK 4.mp3' is catalogued under the label 'Marc 4'
C23_Witness ==
    /\ NormDone
    /\ nm_name = AsWritten("mark", "upper", 1)
    /\ nm_once = "marc" /\ nm_twice = "marc"
    /\ nm_ref = [name |-> "marc", chapter |-> 4]
    /\ nm_record # <<>> /\ nm_record[1].label = "Marc 4"

\* the folder 'Saint Luke' holds '4.mp3': the record is named 'saint luke'
\* while the token 'Saint Luke 4' parses as Luke 4
C23_FolderNameKept ==
    /\ NormDone /\ nm_layout = "parent"
    /\ nm_record # <<>> /\ nm_record[1].gospel_name = "saint luke"
    /\ nm_record[1].label = "Saint Luke 4"
    /\ nm_ref = [name |-> "luke", chapter |-> 4]

\* how often the path occurs in the list
CountPath(seq, path) == Cardinality({ i \in 1..Len(seq) : seq[i].path = path })

\* the while loop is about to call cycle_once
EnteringCycle == pc = "while" /\ ~ TargetReached(total, target_seconds)

\* C24: whenever build_selection enters an exhaustion cycle every pool clip
\* has been used, so the used set is reset and the cycle walks a shuffle of
\* the whole pool (the clips still to walk and the paths used since the reset
\* make up the pool, never an unused remainder); and for a pool with distinct
\* paths the numbers of occurrences of any two pool clips in the returned
\* selection differ by at most 1
C24_CyclesWalkWholePool ==
    /\ EnteringCycle => Paths(pool_items) \subseteq used_paths
    /\ pc = "cycle" =>
          /\ Paths(remaining) \cup used_paths = Paths(pool_items)
          /\ DistinctPaths(pool_items) =>
                Len(remaining) + Cardinality(used_paths) = Len(pool_items)
    /\ (Returned /\ DistinctPaths(pool_items)) =>
          \A a, b \in Paths(pool_items) :
              CountPath(selection, a) - CountPath(selection, b) <= 1

\* a return inside an exhaustion cycle of a pool of distinct clips, after a
\* head clip: one pool clip was taken twice, another once
C24_Witness ==
    /\ Returned /\ DistinctPaths(pool_items) /\ Len(pool_items) >= 2
    /\ head # <<>>
    /\ \E a, b \in Paths(pool_items) :
          CountPath(selection, a) = 2 /\ CountPath(selection, b) = 1

\* the call _process_titles makes with include_gospel off: the pool is the
\* psalms, preferred_candidates the psalms followed by the gospels
WebCallGospelOff ==
    /\ pool_items = SelectType(pool_items, "psalm")
    /\ ~ preferred_candidates.isNone
    /\ preferred_candidates.items =
           pool_items \o SelectType(Catalog, "gospel")

\* position i of the selection holds head clip i
PlacedAsHead(i) == i <= Len(head) /\ selection[i] = head[i]

\* C25: in the call _process_titles makes with include_gospel off a gospel
\* clip enters the selection only as a head clip resolved from a gospel
\* preference token, never as fill, and a head clip that is not a member of
\* the pool appears at most once in the selection even when the pool is
\* recycled
C25_GospelOnlyAsHead ==
    (WebCallGospelOff /\ HeadBuilt) =>
        /\ \A i \in 1..Len(selection) :
              selection[i].type = "gospel" =>
                  /\ PlacedAsHead(i)
                  /\ \E k \in 1..Len(head_candidates) :
                        /\ head_candidates[k].kind = "str"
                        /\ Asks(head_candidates[k], selection[i])
        /\ \A i \in 1..Len(head) :
              head[i].path \notin Paths(pool_items) =>
                  CountPath(selection, head[i].path) <= 1

\* a returned selection of the web call that opens with the gospel clip and
\* recycled its psalm pool
C25_Witness ==
    /\ WebCallGospelOff /\ Returned
    /\ head # <<>> /\ head[1].type = "gospel"
    /\ selection[1] = head[1]
    /\ Len(selection) > Len(head) + Len(pool_items)
    /\ pool_items # <<>>

\* build_playlist returned its PlaylistResult
PlaylistReturned == pl_pc = "returned"

\* what is left to play once trim_first_audio_seconds is cut off the first
\* clip of the selection (the whole clip when it is shorter than the trim)
PlayableAfterTrim ==
    total - Min(TrimFirstAudio[1], selection[1].dur)

\* C26 as stated: for a playlist built by build_playlist the audio that is
\* left after trimming the first clip still covers the target,
\* total_seconds - min(trim_first_audio_seconds, duration of the first clip)
\* >= target_seconds
C26_AsStated ==
    PlaylistReturned => PlayableAfterTrim >= target_seconds

\* a returned playlist whose total reaches the target while the audio left
\* after the trim is shorter than the target
C26_TrimLeavesTooLittle ==
    /\ PlaylistReturned
    /\ total >= target_seconds
    /\ PlayableAfterTrim < target_seconds

\* every image's export is on disk
ExportsComplete ==
    \A i \in 1..Len(ordered) : ExportOnDisk(i, track_dirs, chapters_files)

\* no two images of the list share a playlist index
DistinctIndices ==
    \A i, j \in 1..Len(ordered) : i # j => IndexOf(i) # IndexOf(j)

\* C27 as stated: when the polling loop of run_all finds all tracks ready
\* (and goes on to the Resolve sync) the export of every image is complete:
\* all its selected clips are in its track folder and its chapter file is
\* written
C27_AsStated ==
    (ra_pc = "poll" /\ AllTracksReadyOnDisk) => ExportsComplete

\* the polling loop finds all tracks ready while a request thread has copied
\* the first clip of the last image only and has not written its chapters
C27_ReadyDuringCopy ==
    /\ ra_pc = "poll" /\ AllTracksReadyOnDisk
    /\ DistinctIndices
    /\ \E th \in RequestThreads :
          /\ requests[th].pc = "copying"
          /\ requests[th].i = Len(ordered)
          /\ requests[th].copied = 1
          /\ chapters_files[IndexOf(Len(ordered))] = None

\* C28 as stated: at most one Resolve sync worker started by
\* _trigger_resolve is active at any time, for any interleaving of concurrent
\* requests: while a worker is active the busy flag is set, so that a
\* trigger returns "busy" and starts nothing, and the flag is clear once no
\* worker is left
C28_AsStated ==
    /\ workers <= 1
    /\ workers >= 1 => trigger_event
    /\ workers = 0 => ~ trigger_event

\* two workers are active at once: two request threads both read the flag
\* as clear before either set it
C28_TwoWorkers ==
    /\ workers = 2
    /\ trigger_event
    /\ \A th \in RequestThreads : requests[th].pc = "idle"

\* C29 as stated: processing titles for one image changes only that image's
\* export: the track folder and chapter file exported for an image stay on
\* disk as exported, whatever is processed for the other images of the list
C29_AsStated ==
    \A i \in exported : ExportOnDisk(i, track_dirs, chapters_files)

\* the export of the first image stood; a request for the second image,
\* whose name gives the same playlist index, has emptied the track folder
\* and copies its own clips into it
C29_OtherImageEmptiesFolder ==
    /\ Len(ordered) = 2
    /\ IndexOf(1) = IndexOf(2)
    /\ 1 \in exported
    /\ chapters_files[IndexOf(1)] = 1
    /\ ExportedClip(1, 1) \notin track_dirs[IndexOf(1)].files
    /\ \E th \in RequestThreads :
          requests[th].i = 2 /\ requests[th].pc = "copying"
    /\ \A th \in RequestThreads : requests[th].i # 1

\* the frames an entry of audio_instr takes from its clip
FramesOf(instr) == instr.endFrame - instr.startFrame + 1

\* the record frame at which an entry of audio_instr ends
EndOf(instr) == instr.recordFrame + FramesOf(instr)

\* C30: during the audio placement loop of sync_timelines a_rec + remaining
\* is frames_final and remaining >= 0 at every step; every instruction places
\* at least one frame and starts at the record frame where the one before it
\* ended (the first at 0); only the first instruction can start inside its
\* clip (the trim); so the placed audio is contiguous, without overlap, and
\* ends at a_rec, never beyond frames_final
C30_AudioPlacement ==
    au_pc \in {"loop", "placed"} =>
        /\ a_rec + remaining_frames = frames_final
        /\ remaining_frames >= 0
        /\ \A k \in 1..Len(audio_instr) :
              /\ FramesOf(audio_instr[k]) >= 1
              /\ audio_instr[k].recordFrame =
                     (IF k = 1 THEN 0 ELSE EndOf(audio_instr[k - 1]))
              /\ k > 1 => audio_instr[k].startFrame = 0
              /\ EndOf(audio_instr[k]) <= frames_final
        /\ a_rec = (IF audio_instr = <<>> THEN 0
                    ELSE EndOf(audio_instr[Len(audio_instr)]))

\* a placement of two clips that fills the final duration: the first starts
\* inside its clip after the trim, the second is cut at the back
C30_Witness ==
    /\ au_pc = "placed"
    /\ Len(audio_instr) = 2
    /\ audio_instr[1].startFrame > 0
    /\ remaining_frames = 0
    /\ FramesOf(audio_instr[2]) < audio_frames[Len(audio_frames)]
    /\ Len(audio_frames) = 2

====
